---- MODULE Spec2Model ----
(***************************************************************************)
(* Session / message lifecycle of the knowledge-assistant backend.         *)
(*                                                                         *)
(* The repository holds three session front ends, each with its own        *)
(* in-process store for incognito (ephemeral) chats:                       *)
(*   "service"  : services/chat_service.py   ChatService                   *)
(*   "manager"  : services/chat_manager.py   ChatManager                   *)
(*   "endpoint" : api/v1/endpoints/chat.py   INCOGNITO_CHATS + handlers    *)
(* Their incognito stores are disjoint and no operation of one reads the   *)
(* store of another, so a behaviour exercises one front end (variable      *)
(* front, chosen initially) against the shared durable store.              *)
(*                                                                         *)
(* Every handler runs on the single asyncio event loop and contains no     *)
(* real suspension point (the OpenAI client is the synchronous client,     *)
(* the SQL calls are made inline), so a handler is one atomic action.      *)
(***************************************************************************)
EXTENDS Integers, Sequences, FiniteSets, TLC

\* ------------------------------------------------------------------ bounds
\* Number of timestamps (datetime.utcnow / CURRENT_TIMESTAMP) a behaviour may
\* draw; every create and every appended message draws one.  A handler that
\* can draw a timestamp is called only while the clock has one left.
MaxClock == 3
\* Rows of the largest table a build is given.
MaxTexts == 201
\* Requests a behaviour of the event loop serves.
MaxRequests == 3
\* Conversation turns that may be in flight at once.
MaxTurns == 2

\* ------------------------------------------------------------------ inputs
Users == {1, 2}
Fronts == {"service", "manager", "endpoint"}
None == "<None>"
\* Titles a create names (None: the default title) and the field sets an update
\* supplies (one field at a time, or none).
CreateTitles == {None}
UpdateInputs ==
    {[title |-> None, is_archived |-> "none", is_incognito |-> "none"],
     [title |-> "Renamed", is_archived |-> "none", is_incognito |-> "none"],
     [title |-> None, is_archived |-> "true", is_incognito |-> "none"],
     [title |-> None, is_archived |-> "none", is_incognito |-> "true"]}
RoleInputs == {"user", "assistant"}
OptBool == {"none", "true", "false"}
LLMOutcomes == {"text", "empty", "raises"}

VARIABLES
    front,               \* the front end this behaviour exercises
    incognito_chats,     \* chat_id -> session record   (in-process dict)
    incognito_messages,  \* chat_id -> list of messages (in-process dict)
    incognito_id,        \* _incognito_id / INCOGNITO_COUNTER
    chat_sessions,       \* durable table chat_sessions: id -> row
    chat_messages,       \* durable table chat_messages: rows in insertion order
    session_seq,         \* AUTOINCREMENT high-water mark of chat_sessions
    message_seq,         \* AUTOINCREMENT high-water mark of chat_messages
    chat_logs,           \* number of rows of the chat_logs table
    now,                 \* logical clock behind utcnow()/CURRENT_TIMESTAMP
    allocated,           \* history: incognito ids handed out, in order
    deleted,             \* history: incognito ids on which delete succeeded
    last,                \* the last call and what it returned
    csv,                 \* company_faqs.csv: its rows, None when there is no file
    csv_mtime,           \* st_mtime of company_faqs.csv
    frame,               \* DataManager.data_sources["company_faqs"] (None: absent)
    indexes,             \* VectorSearchEngine.indexes["company_faqs"]: its vectors
    documents,           \* VectorSearchEngine.documents["company_faqs"]
    last_updated,        \* VectorSearchEngine.last_updated["company_faqs"]
    index_file,          \* company_faqs.index on disk: the vectors written
    data_file,           \* company_faqs.data on disk: documents and last_updated
    built,               \* history: what the latest build put in memory
    uploads,             \* uploaded_files/<file_id>.csv and its index pair on disk
    batches,             \* history: per batch of the latest direct build, whether
                         \* the embedding provider answered it
    requests,            \* per request: where its handler is, how many durable
                         \* calls it has made, the thread of the call in progress
    turns,               \* per conversation turn in flight: where its handler is,
                         \* its session and the ids of the messages it stored
    found                \* the last retrieval call and what it returned

vars == <<front, incognito_chats, incognito_messages, incognito_id,
          chat_sessions, chat_messages, session_seq, message_seq, chat_logs,
          now, allocated, deleted, last,
          csv, csv_mtime, frame, indexes, documents, last_updated,
          index_file, data_file, built, uploads, batches, found, requests, turns>>

memory == <<incognito_chats, incognito_messages, incognito_id>>
durable == <<chat_sessions, chat_messages, session_seq, message_seq, chat_logs>>
chat == <<incognito_chats, incognito_messages, incognito_id, chat_sessions,
          chat_messages, session_seq, message_seq, chat_logs, allocated, deleted,
          last>>
engine == <<indexes, documents, last_updated>>
disk == <<index_file, data_file>>
retrieval == <<csv, csv_mtime, frame, indexes, documents, last_updated,
               index_file, data_file, built, uploads, batches, found>>

\* ------------------------------------------------------------------ helpers
Put(f, k, v) == [x \in DOMAIN f \cup {k} |-> IF x = k THEN v ELSE f[x]]
Pop(f, k) == [x \in DOMAIN f \ {k} |-> f[x]]
EmptyMap == [x \in {} |-> 0]

Min(S) == CHOOSE x \in S : \A y \in S : x <= y

\* Ids a request may name: every id handed out so far and one fresh id on
\* either side of zero.
ChatIdInputs ==
    LET lowest == Min({incognito_id} \cup {allocated[i] - 1 : i \in 1..Len(allocated)})
    IN  {i \in lowest..(session_seq + 1) : i # 0}

Call(op, user, chat_id, status, value) ==
    [op |-> op, user |-> user, chat_id |-> chat_id, status |-> status,
     value |-> value, llm |-> "none", mode |-> "none", user_message_id |-> 0]

\* The same for a call that names or makes its storage regime.
CallIn(mode, op, user, chat_id, status, value) ==
    [Call(op, user, chat_id, status, value) EXCEPT !.mode = mode]

\* The same for a conversation turn; llm is the language model's outcome, "none"
\* when the turn ended before the model was called; user_message_id is the id
\* of the user message the turn stored, 0 when it stored none.
Turn(mode, llm, user, chat_id, status, value, user_message_id) ==
    [Call("turn", user, chat_id, status, value)
        EXCEPT !.mode = mode, !.llm = llm, !.user_message_id = user_message_id]

Regime(is_incognito) == IF is_incognito THEN "incognito" ELSE "durable"

\* ------------------------------------------------------------------ durable store
\* Whether an INSERT of the durable store commits or raises (a locked or full
\* database); the store's own handlers catch the exception.
Commits == BOOLEAN

\* A message as the stores keep it (metadata and created_at are not modelled:
\* no operation reads them back).
incognito_message(id, role, content) == [id |-> id, role |-> role, content |-> content]

message_row(id, chat_id, role, content) ==
    [id |-> id, chat_id |-> chat_id, role |-> role, content |-> content]

DbDefaultTitle == "Chat <date>"

db_session_row(user_id, title, t) ==
    [user_id |-> user_id, title |-> title, created_at |-> t, updated_at |-> t,
     is_archived |-> FALSE, is_pinned |-> FALSE, is_incognito |-> FALSE]

\* DatabaseManager.create_chat_session: INSERT into chat_sessions; the id is
\* the AUTOINCREMENT rowid.  Returns the new tables and the id.
db_create_chat_session(S, seq, user_id, title, t) ==
    LET id == seq + 1 IN
    [sessions |-> Put(S, id, db_session_row(user_id,
                        IF title = None THEN DbDefaultTitle ELSE title, t)),
     seq |-> id, id |-> id]

\* Variant of add_message_to_chat that commits the INSERT on its own and
\* loses the UPDATE of the session row.
db_add_message_to_chat_insert_only(S, M, seq, chat_id, role, content, t) ==
    LET id == seq + 1 IN
    [sessions |-> S,
     messages |-> Append(M, message_row(id, chat_id, role, content)),
     seq |-> id, id |-> id]

\* DatabaseManager.add_message_to_chat: INSERT the message row, then UPDATE the
\* session's updated_at, committed together.  The SQLAlchemy engine does not
\* switch SQLite's foreign_keys pragma on, so the INSERT does not need the
\* session row; the UPDATE then matches no row.
db_add_message_to_chat(S, M, seq, chat_id, role, content, t) ==
    LET id == seq + 1 IN
    [sessions |-> IF chat_id \in DOMAIN S
                  THEN [S EXCEPT ![chat_id].updated_at = t] ELSE S,
     messages |-> Append(M, message_row(id, chat_id, role, content)),
     seq |-> id, id |-> id]

\* DatabaseManager.add_message_to_chat when the INSERT raises: the transaction
\* is rolled back and None (id 0 here) is returned.
db_add_message_to_chat_raised(S, M, seq) ==
    [sessions |-> S, messages |-> M, seq |-> seq, id |-> 0]

\* DatabaseManager.get_user_chat_sessions: the user's rows, archived ones only
\* on request (ordering and paging are applied by the callers' readers).
db_get_user_chat_sessions(user_id, include_archived) ==
    {id \in DOMAIN chat_sessions :
        /\ chat_sessions[id].user_id = user_id
        /\ (include_archived \/ ~chat_sessions[id].is_archived)}

\* The sequence that lists the set S once each, in the order before gives:
\* before is the set of the pairs <<a, b>> with a ahead of b.
OrderBy(S, before) ==
    CHOOSE f \in [1..Cardinality(S) -> S] :
        \A i, j \in 1..Cardinality(S) : i < j => <<f[i], f[j]>> \in before

\* s[offset + 1 .. offset + limit], as LIMIT ? OFFSET ? and list slicing cut it.
Slice(s, limit, offset) ==
    SubSeq(s, offset + 1, IF Len(s) < offset + limit THEN Len(s) ELSE offset + limit)

\* ORDER BY updated_at DESC over chat_sessions (equal stamps: lower id first).
RecentFirst(a, b) ==
    \/ chat_sessions[a].updated_at > chat_sessions[b].updated_at
    \/ /\ chat_sessions[a].updated_at = chat_sessions[b].updated_at
       /\ a < b

\* A durable session as a listing shows it.
db_session_entry(id) ==
    [id |-> id, user_id |-> chat_sessions[id].user_id,
     updated_at |-> chat_sessions[id].updated_at,
     is_incognito |-> chat_sessions[id].is_incognito]

\* DatabaseManager.get_user_chat_sessions with its ordering and paging:
\* the user's rows, most recently updated first, OFFSET offset LIMIT limit.
db_get_user_chat_sessions_page(user_id, include_archived, limit, offset) ==
    LET rows == db_get_user_chat_sessions(user_id, include_archived)
        ids == OrderBy(rows, {p \in rows \X rows : RecentFirst(p[1], p[2])})
        page == Slice(ids, limit, offset) IN
    [i \in 1..Len(page) |-> db_session_entry(page[i])]

\* The limit get_user_chat_sessions applies when the caller names none.
DefaultSessionLimit == 20

\* The user's incognito chats in the order the dict yields them (insertion
\* order; ids are handed out downwards, so -1 comes first).  stamp picks the
\* field shown as updated_at.
IncognitoFirst(a, b) == a > b

incognito_entries(user_id, stamp) ==
    LET own == {c \in DOMAIN incognito_chats : incognito_chats[c].user_id = user_id}
        ids == OrderBy(own, {p \in own \X own : IncognitoFirst(p[1], p[2])}) IN
    [i \in 1..Len(ids) |->
        [id |-> ids[i], user_id |-> user_id,
         updated_at |-> incognito_chats[ids[i]][stamp],
         is_incognito |-> TRUE]]

\* The field of an incognito chat a listing shows as updated_at.
UpdatedAt == "updated_at"
CreatedAt == "created_at"

\* SELECT ... FROM chat_messages WHERE chat_id = ? in ascending id / created_at
\* order (rows are kept in insertion order, which is both).
RowsOfChat(chat_id) ==
    LET OfChat(r) == r.chat_id = chat_id IN SelectSeq(chat_messages, OfChat)

\* The rows as the message objects handed to callers.
AsMessages(rows) ==
    [i \in 1..Len(rows) |-> incognito_message(rows[i].id, rows[i].role, rows[i].content)]

\* The page get_chat_messages reads when the caller names no limit.
DefaultMessageLimit == 100

\* Variant of get_chat_messages reading the page newest first.
db_get_chat_messages_desc(chat_id, limit) ==
    LET rows == RowsOfChat(chat_id)
        n == Len(rows)
        desc == [i \in 1..n |-> rows[n + 1 - i]] IN
    SubSeq(desc, 1, IF n < limit THEN n ELSE limit)

\* DatabaseManager.get_chat_messages: the first `limit` rows of one chat,
\* oldest first.
db_get_chat_messages(chat_id, limit) ==
    LET rows == RowsOfChat(chat_id) IN
    SubSeq(rows, 1, IF Len(rows) < limit THEN Len(rows) ELSE limit)

ApplyOpt(old, opt) == IF opt = "none" THEN old ELSE (opt = "true")

\* UPDATE chat_sessions SET <supplied fields>, updated_at WHERE id = chat_id.
UpdateRow(S, chat_id, title, is_archived, is_pinned, is_incognito, t) ==
    IF chat_id \notin DOMAIN S THEN S
    ELSE [S EXCEPT ![chat_id] =
            [@ EXCEPT !.title = IF title = None THEN @ ELSE title,
                      !.is_archived = ApplyOpt(@, is_archived),
                      !.is_pinned = ApplyOpt(@, is_pinned),
                      !.is_incognito = ApplyOpt(@, is_incognito),
                      !.updated_at = t]]

\* The row exists and is the user's (WHERE id = ? AND user_id = ?).
OwnedRow(chat_id, user_id) ==
    chat_id \in DOMAIN chat_sessions /\ chat_sessions[chat_id].user_id = user_id

\* DatabaseManager.update_chat_session (not in database.py): set the supplied
\* fields of the row; None when the row does not exist.
db_update_chat_session(S, chat_id, title, is_archived, is_pinned, is_incognito, t) ==
    UpdateRow(S, chat_id, title, is_archived, is_pinned, is_incognito, t)

\* DatabaseManager.delete_chat_session (not in database.py): delete the
\* session row and, by cascade, its message rows.
db_delete_chat_session(S, M, chat_id) ==
    LET Other(r) == r.chat_id # chat_id IN
    [sessions |-> Pop(S, chat_id), messages |-> SelectSeq(M, Other),
     success |-> chat_id \in DOMAIN S]

\* DatabaseManager.chat_belongs_to_user (not in database.py).
db_chat_belongs_to_user(chat_id, user_id) == OwnedRow(chat_id, user_id)

\* DatabaseManager.get_chat_session_by_id (not in database.py); user 0 is None.
db_get_chat_session_by_id(chat_id, user_id) ==
    /\ chat_id \in DOMAIN chat_sessions
    /\ (user_id = 0 \/ chat_sessions[chat_id].user_id = user_id)

\* ------------------------------------------------------------------ language model
\* OpenAIService.generate_response: the completion text; every exception
\* (the API call raising, or len() of an absent content) is caught and None
\* is returned.
generate_response(outcome) ==
    IF outcome = "text" THEN "answer"
    ELSE IF outcome = "empty" THEN "" ELSE None

\* OpenAIService.get_chat_response: wraps generate_response.
EpErrorText == "Sorry, could not generate response"

get_chat_response(outcome) ==
    LET response_text == generate_response(outcome) IN
    IF response_text \in {None, ""} THEN EpErrorText ELSE response_text

\* ------------------------------------------------------------------ ChatService
\* Variant of the sign test that lets -1 through to the durable path.
_is_incognito_chat_id_below(chat_id) == chat_id < -1

_is_incognito_chat_id(chat_id) == chat_id < 0

CsDefaultTitle == "Chat <date>"
CsErrorText == "Error occurred while generating response."

\* ChatService._new_incognito_id: the value handed out and the new counter.
_new_incognito_id(counter) == [cid |-> counter, counter |-> counter - 1]

CS_CreateChatSession(user_id, title, is_incognito) ==
    /\ front = "service"
    /\ now < MaxClock
    /\ LET t == IF title = None THEN CsDefaultTitle ELSE title IN
       IF is_incognito
       THEN LET n == _new_incognito_id(incognito_id) IN
            /\ incognito_id' = n.counter
            /\ incognito_chats' = Put(incognito_chats, n.cid,
                   [user_id |-> user_id, title |-> t,
                    created_at |-> now, updated_at |-> now])
            /\ incognito_messages' = Put(incognito_messages, n.cid, <<>>)
            /\ allocated' = Append(allocated, n.cid)
            /\ last' = CallIn("incognito", "create", user_id, n.cid, "ok", n.cid)
            /\ UNCHANGED durable
       ELSE LET r == db_create_chat_session(chat_sessions, session_seq, user_id, t, now) IN
            /\ session_seq' = r.seq
            /\ chat_sessions' = r.sessions
            /\ last' = CallIn("durable", "create", user_id, r.id, "ok", r.id)
            /\ UNCHANGED <<chat_messages, message_seq, chat_logs, memory, allocated>>
    /\ now' = now + 1
    /\ UNCHANGED <<front, deleted>>

\* ChatService.update_chat: incognito ids are refused, the rest is delegated.
CS_UpdateChat(chat_id, title, is_archived, is_pinned, is_incognito) ==
    /\ front = "service"
    /\ IF _is_incognito_chat_id(chat_id)
       THEN /\ last' = Call("update", 0, chat_id, "none", 0)
            /\ UNCHANGED <<durable, now>>
       ELSE /\ now < MaxClock
            /\ chat_sessions' = db_update_chat_session(chat_sessions, chat_id,
                                    title, is_archived, is_pinned, is_incognito, now)
            /\ last' = Call("update", 0, chat_id,
                            IF chat_id \in DOMAIN chat_sessions THEN "ok" ELSE "none", 0)
            /\ now' = IF chat_id \in DOMAIN chat_sessions THEN now + 1 ELSE now
            /\ UNCHANGED <<chat_messages, session_seq, message_seq, chat_logs>>
    /\ UNCHANGED <<front, memory, allocated, deleted>>

\* ChatService.delete_chat: takes no user; pops both maps for a negative id
\* and reports True whether or not the id was there.
CS_DeleteChat(chat_id) ==
    /\ front = "service"
    /\ IF _is_incognito_chat_id(chat_id)
       THEN /\ incognito_chats' = Pop(incognito_chats, chat_id)
            /\ incognito_messages' = Pop(incognito_messages, chat_id)
            /\ deleted' = IF chat_id \in DOMAIN incognito_chats
                          THEN deleted \cup {chat_id} ELSE deleted
            /\ last' = Call("delete", 0, chat_id, "ok", 0)
            /\ UNCHANGED durable
       ELSE LET r == db_delete_chat_session(chat_sessions, chat_messages, chat_id) IN
            /\ chat_sessions' = r.sessions
            /\ chat_messages' = r.messages
            /\ last' = Call("delete", 0, chat_id,
                            IF r.success THEN "ok" ELSE "none", 0)
            /\ UNCHANGED <<session_seq, message_seq, chat_logs,
                           incognito_chats, incognito_messages, deleted>>
    /\ UNCHANGED <<front, incognito_id, now, allocated>>

\* Variant of the collection that ignores the owner.
to_delete_any(user_id) == DOMAIN incognito_chats

\* The ids clear_incognito_chats collects: the user's incognito chats.
to_delete(user_id) ==
    {cid \in DOMAIN incognito_chats : incognito_chats[cid].user_id = user_id}

\* ChatService.clear_incognito_chats (switch_user_mode calls it as is).
CS_ClearIncognitoChats(user_id) ==
    /\ front = "service"
    /\ LET ids == to_delete(user_id) IN
       /\ incognito_chats' = [c \in DOMAIN incognito_chats \ ids |-> incognito_chats[c]]
       /\ incognito_messages' =
              [c \in DOMAIN incognito_messages \ ids |-> incognito_messages[c]]
       /\ last' = Call("clear", user_id, 0, "ok", Cardinality(ids))
    /\ UNCHANGED <<front, incognito_id, durable, now, allocated, deleted>>

\* ChatService.verify_chat_owner.
CS_verify_chat_owner(chat_id, user_id) ==
    IF _is_incognito_chat_id(chat_id)
    THEN chat_id \in DOMAIN incognito_chats /\ incognito_chats[chat_id].user_id = user_id
    ELSE db_chat_belongs_to_user(chat_id, user_id)

\* ChatService.get_chat_session: TRUE when a session is returned, FALSE for
\* None; user 0 is the absent user_id.
CS_get_chat_session(chat_id, user_id) ==
    IF _is_incognito_chat_id(chat_id)
    THEN /\ chat_id \in DOMAIN incognito_chats
         /\ (user_id = 0 \/ incognito_chats[chat_id].user_id = user_id)
    ELSE db_get_chat_session_by_id(chat_id, user_id)

\* ChatService.get_chat_messages (no limit, no offset): the list returned.
\* An id without a message list yields the empty list.
CS_get_chat_messages(chat_id) ==
    IF _is_incognito_chat_id(chat_id)
    THEN IF chat_id \in DOMAIN incognito_messages
         THEN incognito_messages[chat_id] ELSE <<>>
    ELSE AsMessages(db_get_chat_messages(chat_id, DefaultMessageLimit))

\* What ChatService.get_chat_messages signals: it answers with a list in
\* every case (a missing id reads as the empty list, an exception as []).
CS_get_chat_messages_status(chat_id) == "ok"

\* Variant of ChatService.add_message that replaces the incognito thread by
\* the new message instead of appending to it.
cs_add_message_replacing(C, Msgs, S, M, seq, chat_id, role, content, t) ==
    IF _is_incognito_chat_id(chat_id)
    THEN IF chat_id \notin DOMAIN Msgs
         THEN [chats |-> C, msgs |-> Msgs, sessions |-> S, messages |-> M,
               seq |-> seq, id |-> 0, ok |-> FALSE]
         ELSE LET mid == -Len(Msgs[chat_id]) - 1 IN
              [chats |-> IF chat_id \in DOMAIN C
                         THEN [C EXCEPT ![chat_id].updated_at = t] ELSE C,
               msgs |-> [Msgs EXCEPT ![chat_id] =
                            <<incognito_message(mid, role, content)>>],
               sessions |-> S, messages |-> M, seq |-> seq, id |-> mid, ok |-> TRUE]
    ELSE LET r == db_add_message_to_chat(S, M, seq, chat_id, role, content, t) IN
         [chats |-> C, msgs |-> Msgs, sessions |-> r.sessions,
          messages |-> r.messages, seq |-> r.seq, id |-> r.id, ok |-> TRUE]

\* ChatService.add_message as a function of the stores: the new stores, the
\* message id and whether a message was returned.
cs_add_message(C, Msgs, S, M, seq, chat_id, role, content, t) ==
    IF _is_incognito_chat_id(chat_id)
    THEN IF chat_id \notin DOMAIN Msgs
         THEN [chats |-> C, msgs |-> Msgs, sessions |-> S, messages |-> M,
               seq |-> seq, id |-> 0, ok |-> FALSE]
         ELSE LET mid == -Len(Msgs[chat_id]) - 1 IN
              [chats |-> IF chat_id \in DOMAIN C
                         THEN [C EXCEPT ![chat_id].updated_at = t] ELSE C,
               msgs |-> [Msgs EXCEPT ![chat_id] =
                            Append(@, incognito_message(mid, role, content))],
               sessions |-> S, messages |-> M, seq |-> seq, id |-> mid, ok |-> TRUE]
    ELSE LET r == db_add_message_to_chat(S, M, seq, chat_id, role, content, t) IN
         [chats |-> C, msgs |-> Msgs, sessions |-> r.sessions,
          messages |-> r.messages, seq |-> r.seq, id |-> r.id, ok |-> TRUE]

CS_AddMessage(chat_id, role, content) ==
    /\ front = "service"
    /\ now < MaxClock
    /\ LET r == cs_add_message(incognito_chats, incognito_messages, chat_sessions,
                               chat_messages, message_seq, chat_id, role, content, now) IN
       /\ incognito_chats' = r.chats
       /\ incognito_messages' = r.msgs
       /\ chat_sessions' = r.sessions
       /\ chat_messages' = r.messages
       /\ message_seq' = r.seq
       /\ now' = IF r.ok THEN now + 1 ELSE now
       /\ last' = Call("add_message", 0, chat_id,
                       IF r.ok THEN "ok" ELSE "none", r.id)
    /\ UNCHANGED <<front, incognito_id, session_seq, chat_logs, allocated, deleted>>

\* Variant of the fallback that hands the model's answer on as it is.
cs_ai_response_raw(ai) == ai

\* process_user_message's fallback: `if not ai_response: ai_response = <text>`.
cs_ai_response(ai) == IF ai \in {None, ""} THEN CsErrorText ELSE ai

\* ChatService.process_user_message: the conversation turn.  It takes no user:
\* caller is the authenticated user of the request that triggered it.
\* user_saved: whether the durable INSERT of the user message commits.
CS_ProcessUserMessage(caller, chat_id, llm, user_saved) ==
    /\ front = "service"
    /\ now + 1 < MaxClock
    /\ _is_incognito_chat_id(chat_id) => user_saved
    /\ LET a1 == cs_add_message(incognito_chats, incognito_messages, chat_sessions,
                                chat_messages, message_seq, chat_id, "user",
                                "question", now)
           r1 == IF user_saved THEN a1
                 ELSE [chats |-> incognito_chats, msgs |-> incognito_messages,
                       sessions |-> chat_sessions, messages |-> chat_messages,
                       seq |-> message_seq, id |-> 0, ok |-> FALSE]
           ai_response == cs_ai_response(generate_response(llm))
           r2 == cs_add_message(r1.chats, r1.msgs, r1.sessions, r1.messages,
                                r1.seq, chat_id, "assistant", ai_response, now + 1)
           r == IF r1.ok THEN r2 ELSE r1
       IN
       /\ incognito_chats' = r.chats
       /\ incognito_messages' = r.msgs
       /\ chat_sessions' = r.sessions
       /\ chat_messages' = r.messages
       /\ message_seq' = r.seq
       /\ now' = IF r1.ok THEN now + 2 ELSE now
       /\ last' = Turn(Regime(_is_incognito_chat_id(chat_id)),
                        IF r1.ok THEN llm ELSE "none", caller, chat_id,
                        IF r.ok THEN "ok" ELSE "none", r.id,
                        IF r1.ok THEN r1.id ELSE 0)
    /\ UNCHANGED <<front, incognito_id, session_seq, chat_logs, allocated, deleted>>

\* ChatService.get_user_chats: the store's default page of durable sessions,
\* then every incognito chat of the user.
CS_get_user_chats(user_id, include_archived, include_incognito) ==
    db_get_user_chat_sessions_page(user_id, include_archived, DefaultSessionLimit, 0)
        \o (IF include_incognito THEN incognito_entries(user_id, UpdatedAt) ELSE <<>>)

ServiceNext ==
    \/ \E u \in Users, t \in CreateTitles, i \in BOOLEAN : CS_CreateChatSession(u, t, i)
    \/ \E c \in ChatIdInputs, f \in UpdateInputs :
          CS_UpdateChat(c, f.title, f.is_archived, "none", f.is_incognito)
    \/ \E c \in ChatIdInputs : CS_DeleteChat(c)
    \/ \E u \in Users : CS_ClearIncognitoChats(u)
    \/ \E c \in ChatIdInputs, r \in RoleInputs : CS_AddMessage(c, r, "text")
    \/ \E u \in Users, c \in ChatIdInputs, o \in LLMOutcomes, s \in Commits :
          CS_ProcessUserMessage(u, c, o, s)

\* ------------------------------------------------------------------ ChatManager
CmDefaultIncognitoTitle == "Incognito Chat"
CmDefaultTitle == "New Chat"

\* Variant of the incognito id that starts counting at 0.
cm_incognito_chat_id_zero(C) == -Cardinality(DOMAIN C)

\* ChatManager.create_chat, incognito branch: the id is computed from the
\* number of incognito chats currently held.
cm_incognito_chat_id(C) == -Cardinality(DOMAIN C) - 1

\* ChatManager.create_chat (first_message only shapes the default title).
CM_CreateChat(user_id, title, is_incognito) ==
    /\ front = "manager"
    /\ now < MaxClock
    /\ IF is_incognito
       THEN LET chat_id == cm_incognito_chat_id(incognito_chats) IN
            /\ incognito_chats' = Put(incognito_chats, chat_id,
                   [user_id |-> user_id,
                    title |-> IF title = None THEN CmDefaultIncognitoTitle ELSE title,
                    created_at |-> now, updated_at |-> now])
            /\ incognito_messages' = Put(incognito_messages, chat_id, <<>>)
            /\ allocated' = Append(allocated, chat_id)
            /\ last' = CallIn("incognito", "create", user_id, chat_id, "ok", chat_id)
            /\ UNCHANGED durable
       ELSE LET r == db_create_chat_session(chat_sessions, session_seq, user_id,
                        IF title = None THEN CmDefaultTitle ELSE title, now) IN
            /\ session_seq' = r.seq
            /\ chat_sessions' = r.sessions
            /\ last' = CallIn("durable", "create", user_id, r.id, "ok", r.id)
            /\ UNCHANGED <<chat_messages, message_seq, chat_logs,
                           incognito_chats, incognito_messages, allocated>>
    /\ now' = now + 1
    /\ UNCHANGED <<front, incognito_id, deleted>>

\* What ChatManager.add_message answers: a message id ("ok") or the INSERT's
\* IntegrityError.
CM_add_message_status(chat_id) ==
    IF chat_id < 0 \/ chat_id \in DOMAIN chat_sessions THEN "ok" ELSE "error"

\* What ChatManager.delete_chat answers: True ("ok") or False ("none").
CM_delete_status(chat_id, user_id) ==
    IF chat_id < 0
    THEN IF chat_id \in DOMAIN incognito_chats /\ incognito_chats[chat_id].user_id = user_id
         THEN "ok" ELSE "none"
    ELSE IF OwnedRow(chat_id, user_id) THEN "ok" ELSE "none"

\* ChatManager.add_message.  Negative id: setdefault on the message map, so an
\* id without a chat record gets a list.  Positive id: the connection has
\* foreign_keys ON, so the INSERT raises when the session row is missing.
CM_AddMessage(chat_id, role, content) ==
    /\ front = "manager"
    /\ now < MaxClock
    /\ IF chat_id < 0
       THEN LET messages == IF chat_id \in DOMAIN incognito_messages
                            THEN incognito_messages[chat_id] ELSE <<>>
                message_id == -Len(messages) - 1 IN
            /\ incognito_messages' = Put(incognito_messages, chat_id,
                   Append(messages, incognito_message(message_id, role, content)))
            /\ incognito_chats' = IF chat_id \in DOMAIN incognito_chats
                   THEN [incognito_chats EXCEPT ![chat_id].updated_at = now]
                   ELSE incognito_chats
            /\ last' = Call("add_message", 0, chat_id, "ok", message_id)
            /\ now' = now + 1
            /\ UNCHANGED durable
       ELSE IF CM_add_message_status(chat_id) = "error"
       THEN /\ last' = Call("add_message", 0, chat_id, "error", 0)
            /\ UNCHANGED <<durable, incognito_chats, incognito_messages, now>>
       ELSE LET r == db_add_message_to_chat(chat_sessions, chat_messages, message_seq,
                                            chat_id, role, content, now) IN
            /\ chat_sessions' = r.sessions
            /\ chat_messages' = r.messages
            /\ message_seq' = r.seq
            /\ last' = Call("add_message", 0, chat_id, "ok", r.id)
            /\ now' = now + 1
            /\ UNCHANGED <<session_seq, chat_logs, incognito_chats, incognito_messages>>
    /\ UNCHANGED <<front, incognito_id, allocated, deleted>>

\* ChatManager.update_chat.
CM_UpdateChat(chat_id, user_id, title, is_archived) ==
    /\ front = "manager"
    /\ now < MaxClock
    /\ IF chat_id < 0
       THEN IF /\ chat_id \in DOMAIN incognito_chats
               /\ incognito_chats[chat_id].user_id = user_id
               /\ title # None
            THEN /\ incognito_chats' = [incognito_chats EXCEPT
                        ![chat_id].title = title, ![chat_id].updated_at = now]
                 /\ last' = Call("update", user_id, chat_id, "ok", 0)
                 /\ now' = now + 1
                 /\ UNCHANGED durable
            ELSE /\ last' = Call("update", user_id, chat_id, "none", 0)
                 /\ UNCHANGED <<durable, incognito_chats, now>>
       ELSE IF title = None /\ is_archived = "none"
       THEN /\ last' = Call("update", user_id, chat_id, "none", 0)
            /\ UNCHANGED <<durable, incognito_chats, now>>
       ELSE IF OwnedRow(chat_id, user_id)
       THEN /\ chat_sessions' = UpdateRow(chat_sessions, chat_id, title,
                                    is_archived, "none", "none", now)
            /\ last' = Call("update", user_id, chat_id, "ok", 0)
            /\ now' = now + 1
            /\ UNCHANGED <<chat_messages, session_seq, message_seq, chat_logs,
                           incognito_chats>>
       ELSE /\ last' = Call("update", user_id, chat_id, "none", 0)
            /\ UNCHANGED <<durable, incognito_chats, now>>
    /\ UNCHANGED <<front, incognito_messages, incognito_id, allocated, deleted>>

\* ChatManager.delete_chat.  Positive id: the message rows are deleted by
\* chat_id alone, the session row by id and user_id.
CM_DeleteChat(chat_id, user_id) ==
    /\ front = "manager"
    /\ IF chat_id < 0
       THEN IF /\ chat_id \in DOMAIN incognito_chats
               /\ incognito_chats[chat_id].user_id = user_id
            THEN /\ incognito_chats' = Pop(incognito_chats, chat_id)
                 /\ incognito_messages' = Pop(incognito_messages, chat_id)
                 /\ deleted' = deleted \cup {chat_id}
                 /\ last' = Call("delete", user_id, chat_id, "ok", 0)
                 /\ UNCHANGED durable
            ELSE /\ last' = Call("delete", user_id, chat_id, "none", 0)
                 /\ UNCHANGED <<durable, incognito_chats, incognito_messages, deleted>>
       ELSE LET Other(r) == r.chat_id # chat_id
                owned == OwnedRow(chat_id, user_id) IN
            /\ chat_messages' = SelectSeq(chat_messages, Other)
            /\ chat_sessions' = IF owned THEN Pop(chat_sessions, chat_id)
                                ELSE chat_sessions
            /\ last' = Call("delete", user_id, chat_id,
                            IF owned THEN "ok" ELSE "none", 0)
            /\ UNCHANGED <<session_seq, message_seq, chat_logs,
                           incognito_chats, incognito_messages, deleted>>
    /\ UNCHANGED <<front, incognito_id, now, allocated>>

\* clear_incognito_chats of chat_manager.py.
CM_ClearIncognitoChats(user_id) ==
    /\ front = "manager"
    /\ LET chats_to_delete == to_delete(user_id) IN
       /\ incognito_chats' =
              [c \in DOMAIN incognito_chats \ chats_to_delete |-> incognito_chats[c]]
       /\ incognito_messages' =
              [c \in DOMAIN incognito_messages \ chats_to_delete |-> incognito_messages[c]]
       /\ last' = Call("clear", user_id, 0, "ok", Cardinality(chats_to_delete))
    /\ UNCHANGED <<front, incognito_id, durable, now, allocated, deleted>>

\* ChatManager.get_chat_history: "ok" with the messages, or ValueError
\* ("Chat not found").
CM_get_chat_history_status(chat_id, user_id) ==
    IF chat_id < 0
    THEN IF chat_id \in DOMAIN incognito_chats /\ incognito_chats[chat_id].user_id = user_id
         THEN "ok" ELSE "not_found"
    ELSE IF OwnedRow(chat_id, user_id) THEN "ok" ELSE "not_found"

\* ChatManager.get_chat_history with no limit: the messages of an "ok" answer.
CM_get_chat_history(chat_id) ==
    IF chat_id < 0
    THEN IF chat_id \in DOMAIN incognito_messages
         THEN incognito_messages[chat_id] ELSE <<>>
    ELSE AsMessages(RowsOfChat(chat_id))

\* ChatManager.get_user_chats: the page of durable sessions the SQL cuts
\* (always listed with is_incognito False), then every incognito chat of the
\* user.
CM_get_user_chats(user_id, include_archived, include_incognito, page, page_size) ==
    LET rows == db_get_user_chat_sessions_page(user_id, include_archived, page_size,
                                               (page - 1) * page_size) IN
    [i \in 1..Len(rows) |-> [rows[i] EXCEPT !.is_incognito = FALSE]]
        \o (IF include_incognito THEN incognito_entries(user_id, UpdatedAt) ELSE <<>>)

ManagerNext ==
    \/ \E u \in Users, t \in CreateTitles, i \in BOOLEAN : CM_CreateChat(u, t, i)
    \/ \E c \in ChatIdInputs, r \in RoleInputs : CM_AddMessage(c, r, "text")
    \/ \E c \in ChatIdInputs, u \in Users, f \in UpdateInputs :
          CM_UpdateChat(c, u, f.title, f.is_archived)
    \/ \E c \in ChatIdInputs, u \in Users : CM_DeleteChat(c, u)
    \/ \E u \in Users : CM_ClearIncognitoChats(u)

\* ------------------------------------------------------------------ chat endpoints
EpDefaultIncognitoTitle == "Incognito Chat"
EpSendTitle == "Chat about: <message>"

\* get_next_incognito_id: the value handed out and the new INCOGNITO_COUNTER.
get_next_incognito_id(counter) == [current |-> counter, counter |-> counter - 1]

\* The ownership test of the durable branches: the id is among the user's
\* sessions as get_user_chat_sessions(user_id, limit=1000) lists them
\* (archived sessions are not listed).
EpOwns(chat_id, user_id) == chat_id \in db_get_user_chat_sessions(user_id, FALSE)

\* Variant of the append that drops assistant messages.
ep_append_user_only(Msgs, chat_id, role, content) ==
    IF role = "assistant" THEN Msgs
    ELSE [Msgs EXCEPT ![chat_id] =
             Append(@, incognito_message(Len(@) + 1, role, content))]

\* INCOGNITO_CHATS[chat_id]["messages"].append(...) with id = len + 1.
ep_append(Msgs, chat_id, role, content) ==
    [Msgs EXCEPT ![chat_id] =
        Append(@, incognito_message(Len(@) + 1, role, content))]

\* The status send_message answers with, before it writes anything:
\* 404 / 403 from the incognito branch, 403 from the durable branch.
EP_send_status(user_id, chat_id, is_incognito) ==
    IF is_incognito
    THEN IF chat_id = 0 \/ chat_id > 0 THEN "ok"
         ELSE IF chat_id \notin DOMAIN incognito_chats THEN "not_found"
         ELSE IF incognito_chats[chat_id].user_id # user_id THEN "forbidden"
         ELSE "ok"
    ELSE IF chat_id = 0 THEN "ok"
         ELSE IF ~EpOwns(chat_id, user_id) THEN "forbidden"
         ELSE "ok"

\* send_message; chat_id 0 stands for an absent chat_id.  user_saved: whether
\* the durable INSERT of the user message commits (user_msg is None if not;
\* the handler goes on either way).
EP_SendMessage(user_id, chat_id, is_incognito, llm, user_saved) ==
    /\ front = "endpoint"
    /\ now < MaxClock
    /\ (is_incognito \/ EP_send_status(user_id, chat_id, is_incognito) # "ok")
          => user_saved
    /\ LET status == EP_send_status(user_id, chat_id, is_incognito)
           content == get_chat_response(llm) IN
       IF status # "ok"
       THEN /\ last' = Turn(Regime(is_incognito), "none", user_id, chat_id, status, 0, 0)
            /\ UNCHANGED <<memory, durable, now, allocated>>
       ELSE IF is_incognito
       THEN LET fresh == chat_id = 0 \/ chat_id > 0
                n == get_next_incognito_id(incognito_id)
                cid == IF fresh THEN n.current ELSE chat_id
                t == IF fresh THEN now + 1 ELSE now
                C1 == IF fresh
                      THEN Put(incognito_chats, cid,
                               [user_id |-> user_id, title |-> EpDefaultIncognitoTitle,
                                created_at |-> now, updated_at |-> now])
                      ELSE incognito_chats
                M0 == IF fresh THEN Put(incognito_messages, cid, <<>>)
                      ELSE incognito_messages
                M1 == ep_append(M0, cid, "user", "question")
                M2 == ep_append(M1, cid, "assistant", content) IN
            /\ t + 2 <= MaxClock
            /\ incognito_id' = IF fresh THEN n.counter ELSE incognito_id
            /\ incognito_chats' = C1
            /\ incognito_messages' = M2
            /\ allocated' = IF fresh THEN Append(allocated, cid) ELSE allocated
            /\ now' = t + 2
            /\ last' = Turn("incognito", llm, user_id, cid, "ok", Len(M2[cid]),
                             Len(M1[cid]))
            /\ UNCHANGED durable
       ELSE LET fresh == chat_id = 0
                c == db_create_chat_session(chat_sessions, session_seq, user_id,
                                            EpSendTitle, now)
                cid == IF fresh THEN c.id ELSE chat_id
                t == IF fresh THEN now + 1 ELSE now
                S0 == IF fresh THEN c.sessions ELSE chat_sessions
                r1 == IF user_saved
                      THEN db_add_message_to_chat(S0, chat_messages, message_seq,
                                                  cid, "user", "question", t)
                      ELSE db_add_message_to_chat_raised(S0, chat_messages,
                                                         message_seq)
                r2 == db_add_message_to_chat(r1.sessions, r1.messages, r1.seq,
                                             cid, "assistant", content, t + 1) IN
            /\ t + 2 <= MaxClock
            /\ session_seq' = IF fresh THEN c.seq ELSE session_seq
            /\ chat_sessions' = r2.sessions
            /\ chat_messages' = r2.messages
            /\ message_seq' = r2.seq
            /\ chat_logs' = chat_logs + 1
            /\ now' = t + 2
            /\ last' = Turn("durable", llm, user_id, cid, "ok", r2.id, r1.id)
            /\ UNCHANGED <<memory, allocated>>
    /\ UNCHANGED <<front, deleted>>

\* create_chat_session (POST /sessions).
EP_CreateChatSession(user_id, title, first_message, is_incognito) ==
    /\ front = "endpoint"
    /\ now + (IF first_message THEN 1 ELSE 0) < MaxClock
    /\ IF is_incognito
       THEN LET n == get_next_incognito_id(incognito_id)
                chat_id == n.current
                M0 == Put(incognito_messages, chat_id, <<>>) IN
            /\ incognito_id' = n.counter
            /\ incognito_chats' = Put(incognito_chats, chat_id,
                   [user_id |-> user_id,
                    title |-> IF title = None THEN EpDefaultIncognitoTitle ELSE title,
                    created_at |-> now, updated_at |-> now])
            /\ incognito_messages' =
                   IF first_message
                   THEN [M0 EXCEPT ![chat_id] = <<incognito_message(1, "user", "hello")>>]
                   ELSE M0
            /\ allocated' = Append(allocated, chat_id)
            /\ last' = CallIn("incognito", "create", user_id, chat_id, "ok", chat_id)
            /\ UNCHANGED durable
       ELSE LET c == db_create_chat_session(chat_sessions, session_seq, user_id,
                                            title, now)
                r == db_add_message_to_chat(c.sessions, chat_messages, message_seq,
                                            c.id, "user", "hello", now + 1) IN
            /\ session_seq' = c.seq
            /\ chat_sessions' = IF first_message THEN r.sessions ELSE c.sessions
            /\ chat_messages' = IF first_message THEN r.messages ELSE chat_messages
            /\ message_seq' = IF first_message THEN r.seq ELSE message_seq
            /\ last' = CallIn("durable", "create", user_id, c.id, "ok", c.id)
            /\ UNCHANGED <<chat_logs, memory, allocated>>
    /\ now' = now + (IF first_message THEN 2 ELSE 1)
    /\ UNCHANGED <<front, deleted>>

\* update_chat_session (PATCH /sessions/{chat_id}).
EP_update_status(chat_id, user_id) ==
    IF chat_id < 0 THEN "bad_request"
    ELSE IF ~EpOwns(chat_id, user_id) THEN "not_found"
    ELSE "ok"

EP_UpdateChatSession(chat_id, user_id, title, is_archived, is_pinned) ==
    /\ front = "endpoint"
    /\ now < MaxClock
    /\ LET status == EP_update_status(chat_id, user_id) IN
       /\ last' = Call("update", user_id, chat_id, status, 0)
       /\ IF status = "ok"
          THEN /\ chat_sessions' = db_update_chat_session(chat_sessions, chat_id,
                                       title, is_archived, is_pinned, "none", now)
               /\ now' = now + 1
          ELSE UNCHANGED <<chat_sessions, now>>
    /\ UNCHANGED <<front, memory, chat_messages, session_seq, message_seq, chat_logs,
                   allocated, deleted>>

\* delete_chat_session (DELETE /sessions/{chat_id}).
EP_delete_status(chat_id, user_id) ==
    IF chat_id < 0
    THEN IF chat_id \notin DOMAIN incognito_chats THEN "not_found"
         ELSE IF incognito_chats[chat_id].user_id # user_id THEN "forbidden"
         ELSE "ok"
    ELSE IF ~EpOwns(chat_id, user_id) THEN "not_found" ELSE "ok"

EP_DeleteChatSession(chat_id, user_id) ==
    /\ front = "endpoint"
    /\ LET status == EP_delete_status(chat_id, user_id) IN
       /\ last' = Call("delete", user_id, chat_id, status, 0)
       /\ IF status # "ok"
          THEN UNCHANGED <<incognito_chats, incognito_messages, chat_sessions,
                           chat_messages, deleted>>
          ELSE IF chat_id < 0
          THEN /\ incognito_chats' = Pop(incognito_chats, chat_id)
               /\ incognito_messages' = Pop(incognito_messages, chat_id)
               /\ deleted' = deleted \cup {chat_id}
               /\ UNCHANGED <<chat_sessions, chat_messages>>
          ELSE LET r == db_delete_chat_session(chat_sessions, chat_messages, chat_id) IN
               /\ chat_sessions' = r.sessions
               /\ chat_messages' = r.messages
               /\ UNCHANGED <<incognito_chats, incognito_messages, deleted>>
    /\ UNCHANGED <<front, incognito_id, session_seq, message_seq, chat_logs, now,
                   allocated>>

\* clear_incognito_chats (DELETE /incognito/clear).
EP_ClearIncognitoChats(user_id) ==
    /\ front = "endpoint"
    /\ LET user_incognito_ids == to_delete(user_id) IN
       /\ incognito_chats' =
              [c \in DOMAIN incognito_chats \ user_incognito_ids |-> incognito_chats[c]]
       /\ incognito_messages' =
              [c \in DOMAIN incognito_messages \ user_incognito_ids |->
                  incognito_messages[c]]
       /\ last' = Call("clear", user_id, 0, "ok", Cardinality(user_incognito_ids))
    /\ UNCHANGED <<front, incognito_id, durable, now, allocated, deleted>>

\* get_chat_history (GET /sessions/{chat_id}): the status answered.
EP_get_chat_history_status(chat_id, user_id) ==
    IF chat_id < 0
    THEN IF chat_id \notin DOMAIN incognito_chats THEN "not_found"
         ELSE IF incognito_chats[chat_id].user_id # user_id THEN "forbidden"
         ELSE "ok"
    ELSE IF ~EpOwns(chat_id, user_id) THEN "not_found" ELSE "ok"

\* get_chat_history with no limit and offset 0: the messages answered.
EP_get_chat_history(chat_id) ==
    IF chat_id < 0
    THEN IF chat_id \in DOMAIN incognito_messages
         THEN incognito_messages[chat_id] ELSE <<>>
    ELSE AsMessages(db_get_chat_messages(chat_id, DefaultMessageLimit))

\* get_chat_sessions (GET /sessions): the page of durable sessions the store
\* cuts, then every incognito chat of the user (shown with updated_at =
\* created_at).
EP_get_chat_sessions(user_id, include_archived, include_incognito, page, page_size) ==
    db_get_user_chat_sessions_page(user_id, include_archived, page_size,
                                   (page - 1) * page_size)
        \o (IF include_incognito THEN incognito_entries(user_id, CreatedAt) ELSE <<>>)

EndpointNext ==
    \/ \E u \in Users, c \in ChatIdInputs \cup {0}, i \in BOOLEAN, o \in LLMOutcomes,
          s \in Commits :
          EP_SendMessage(u, c, i, o, s)
    \/ \E u \in Users, t \in CreateTitles, m \in BOOLEAN, i \in BOOLEAN :
          EP_CreateChatSession(u, t, m, i)
    \/ \E c \in ChatIdInputs, u \in Users, f \in UpdateInputs :
          EP_UpdateChatSession(c, u, f.title, f.is_archived, "none")
    \/ \E c \in ChatIdInputs, u \in Users : EP_DeleteChatSession(c, u)
    \/ \E u \in Users : EP_ClearIncognitoChats(u)

\* ------------------------------------------------------------------ retrieval: text
\* Strings whose characters matter are sequences of one-character strings.
Upper == <<"A","B","C","D","E","F","G","H","I","J","K","L","M",
           "N","O","P","Q","R","S","T","U","V","W","X","Y","Z">>
Lowercase == <<"a","b","c","d","e","f","g","h","i","j","k","l","m",
               "n","o","p","q","r","s","t","u","v","w","x","y","z">>

\* str.lower()
lower(s) ==
    [i \in 1..Len(s) |->
        IF \E k \in 1..Len(Upper) : Upper[k] = s[i]
        THEN Lowercase[CHOOSE k \in 1..Len(Upper) : Upper[k] = s[i]]
        ELSE s[i]]

\* str.strip()
RECURSIVE strip(_)
strip(s) ==
    IF s = <<>> THEN s
    ELSE IF Head(s) = " " THEN strip(Tail(s))
    ELSE IF s[Len(s)] = " " THEN strip(SubSeq(s, 1, Len(s) - 1))
    ELSE s

\* Series.str.contains(pat): pat is a regular expression searched anywhere in
\* the text.  Of the regular-expression syntax the patterns used here hold
\* only ordinary characters and ".", which stands for any one character.
str_contains(text, pat) ==
    \E k \in 0..(Len(text) - Len(pat)) :
        \A i \in 1..Len(pat) : pat[i] = "." \/ pat[i] = text[k + i]

\* re.compile(pat) succeeds: of the patterns used here only one with an
\* opening parenthesis (never closed) is no regular expression.
regex_compiles(pat) == \A i \in 1..Len(pat) : pat[i] # "("

\* The FAQ rows the source table may hold.
FaqRefund ==
    [Category |-> <<"B","i","l","l","i","n","g">>,
     Question |-> <<"H","o","w"," ","d","o"," ","r","e","f","u","n","d","s"," ","w","o",
      "r","k","?">>,
     Answer |-> <<"R","e","f","u","n","d","s"," ","a","r","e"," ","p","r","o","c","e",
      "s","s","e","d"," ","w","i","t","h","i","n"," ","5"," ","d","a","y",
      "s",".">>]
FaqReset ==
    [Category |-> <<"A","c","c","o","u","n","t">>,
     Question |-> <<"R","e","s","e","t"," ","p","a","s","s","w","o","r","d">>,
     Answer |-> <<"U","s","e"," ","t","h","e"," ","l","i","n","k">>]

\* The queries a search may ask.
RefundPolicy == <<"r","e","f","u","n","d"," ","p","o","l","i","c","y">>
Refund == <<"R","e","f","u","n","d">>
WorkDot == <<"w","o","r","k",".">>
Unclosed == <<"(">>
Queries == {RefundPolicy, Refund, WorkDot, Unclosed}

\* Limits (top_k) a search may name.
Limits == {1, 2}

\* The score slot of a result that carries no "_score" key.
NoScore == -1

\* A row as a search result: the row's fields and its relevance score in
\* thousandths (NoScore: the result carries no "_score").
scored(row, score) ==
    [Category |-> row.Category, Question |-> row.Question, Answer |-> row.Answer,
     _score |-> score]

\* The neutral score of a text-search hit (0.5).
FallbackScore == 500

\* Variant of the text search's match that also needs the category to match.
fallback_mask_all(row, q) ==
    /\ str_contains(lower(row.Question), q)
    /\ str_contains(lower(row.Answer), q)
    /\ str_contains(lower(row.Category), q)

\* The mask of _fallback_text_search for one row.
fallback_mask(row, q) ==
    \/ str_contains(lower(row.Question), q)
    \/ str_contains(lower(row.Answer), q)
    \/ str_contains(lower(row.Category), q)

\* s[:n]
head(s, n) == SubSeq(s, 1, IF Len(s) < n THEN Len(s) ELSE n)

\* A value that may be absent (a file not on disk, a source id the engine
\* does not hold, a table not loaded): <<>> when absent, <<v>> when present.
Missing == <<>>
Some(v) == <<v>>
Get(o) == o[1]

\* Variant of the text search that scores its hits twice as high (1.0).
_fallback_text_search_relevant(df, query, limit) ==
    IF df = Missing \/ Get(df) = <<>> THEN <<>>
    ELSE LET q == lower(strip(query)) IN
         IF q = <<>> THEN <<>>
         ELSE LET Hit(row) == fallback_mask(row, q)
                  results == head(SelectSeq(Get(df), Hit), limit) IN
              [i \in 1..Len(results) |-> scored(results[i], 2 * FallbackScore)]

\* DataManager._fallback_text_search over the loaded table frame (None: no
\* table was loaded).
_fallback_text_search(df, query, limit) ==
    IF df = Missing \/ Get(df) = <<>> THEN <<>>
    ELSE LET q == lower(strip(query)) IN
         IF q = <<>> THEN <<>>
         ELSE LET Hit(row) == fallback_mask(row, q)
                  results == head(SelectSeq(Get(df), Hit), limit) IN
              [i \in 1..Len(results) |-> scored(results[i], FallbackScore)]

\* _fallback_text_search raises: str.contains cannot compile the query
\* (re.error), which happens once the table and the query are not empty.
fallback_raises(df, query) ==
    /\ df # Missing /\ Get(df) # <<>>
    /\ lower(strip(query)) # <<>>
    /\ ~regex_compiles(lower(strip(query)))

\* ------------------------------------------------------------------ retrieval: context
NoResultsNote ==
    "\n\nNote: No relevant information was found in our knowledge base. Please answer based on your general knowledge."
LowRelevanceNote ==
    "\n\nNote: The information provided may not directly answer the question. Please use your general knowledge where appropriate, but mention when you do so."

\* result.get("_score", 0)
score_of(result) == IF result._score = NoScore THEN 0 ELSE result._score

\* The score above which a result counts as relevant (0.7).
RelevanceThreshold == 700

\* Variant of the relevance test that also accepts the threshold itself.
is_relevant_inclusive(result) == score_of(result) >= RelevanceThreshold

\* result.get("_score", 0) > 0.7
is_relevant(result) == score_of(result) > RelevanceThreshold

\* sorted(results, key=score, reverse=True): stable, highest score first.
sorted_by_score(results) ==
    LET Before(i, j) ==
            \/ score_of(results[i]) > score_of(results[j])
            \/ score_of(results[i]) = score_of(results[j]) /\ i < j
        at == 1..Len(results)
        order == OrderBy(at, {p \in at \X at : Before(p[1], p[2])}) IN
    [k \in 1..Len(results) |-> results[order[k]]]

\* build_context_from_results: the sections of the context (one per result,
\* in the order used) and the scarcity note.
build_context_from_results(results) ==
    IF results = <<>> THEN [context |-> <<>>, scarcity_note |-> NoResultsNote]
    ELSE LET used == IF results[1]._score # NoScore
                     THEN sorted_by_score(results) ELSE results
             has_relevant_info == \E i \in 1..Len(used) : is_relevant(used[i]) IN
         [context |-> [i \in 1..Len(used) |->
                          [Category |-> used[i].Category,
                           Question |-> used[i].Question,
                           Answer |-> used[i].Answer]],
          scarcity_note |-> IF has_relevant_info THEN "" ELSE LowRelevanceNote]

\* ------------------------------------------------------------------ retrieval: index store
\* The source tables company_faqs.csv may hold (<<>>: the header line only).
Tables == {<<>>, <<FaqRefund>>, <<FaqReset, FaqRefund>>}

\* Whether the embedding provider answers a call.
Embeds == BOOLEAN
\* How a build ends: _create_faiss_index raising before anything is stored,
\* or the index stored in memory and then _save_index writing both files, or
\* its write of the .data file raising after the .index file was written, or
\* its .index write raising.
Saves == {"saved", "data_write_raises", "index_write_raises", "index_build_raises"}

\* The embedding provider, as one coordinate per text; the text of a row is
\* its Question and its Answer.
embed_row(row) ==
    IF row.Question = FaqRefund.Question /\ row.Answer = FaqRefund.Answer THEN 1 ELSE 4
embed_query(query) ==
    IF query = Refund THEN 1 ELSE IF query = RefundPolicy THEN 2 ELSE 3

\* Variant of _get_embeddings_batch that answers a failed call with a single
\* zero vector, whatever the size of the batch.
_get_embeddings_batch_one_zero(rows, embeds) ==
    IF embeds THEN [i \in 1..Len(rows) |-> embed_row(rows[i])] ELSE <<0>>

\* _get_embeddings_batch: the provider's vectors for the texts of one batch,
\* one zero vector per text when the call raises.
_get_embeddings_batch(rows, embeds) ==
    [i \in 1..Len(rows) |-> IF embeds THEN embed_row(rows[i]) ELSE 0]

\* _get_embedding: the provider's vector, the zero vector when the call raises.
_get_embedding(query, embeds) == IF embeds THEN embed_query(query) ELSE 0

\* The engine's memory and files as one value.
Store(ix, docs, upd, ifile, dfile) ==
    [indexes |-> ix, documents |-> docs, last_updated |-> upd,
     index_file |-> ifile, data_file |-> dfile]
TheStore == Store(indexes, documents, last_updated, index_file, data_file)

\* Variant of _save_index that pickles the documents last row first.
_save_index_reversed(st, save) ==
    IF st.indexes = Missing \/ st.documents = Missing \/ save = "index_write_raises"
    THEN st
    ELSE IF save = "data_write_raises"
    THEN [st EXCEPT !.index_file = st.indexes]
    ELSE LET docs == Get(st.documents) IN
         [st EXCEPT !.index_file = st.indexes,
                    !.data_file =
                        Some([documents |->
                                  [k \in 1..Len(docs) |-> docs[Len(docs) + 1 - k]],
                              last_updated |-> st.last_updated])]

\* _save_index: faiss.write_index, then pickle.dump of the documents; an
\* exception is caught where it is raised.
_save_index(st, save) ==
    IF st.indexes = Missing \/ st.documents = Missing \/ save = "index_write_raises"
    THEN st
    ELSE IF save = "data_write_raises"
    THEN [st EXCEPT !.index_file = st.indexes]
    ELSE [st EXCEPT !.index_file = st.indexes,
                    !.data_file = Some([documents |-> Get(st.documents),
                                   last_updated |-> st.last_updated])]

\* Texts embedded per call of the provider.
batch_size == 100

\* The batch loop of build_index_from_dataframe from offset i on: the texts
\* i .. i+batch_size-1 go to the provider in one call (answers names, per
\* batch, whether that call is answered), and what comes back extends the
\* list of embeddings.
RECURSIVE embed_batches(_, _, _)
embed_batches(texts, i, answers) ==
    IF i >= Len(texts) THEN <<>>
    ELSE LET batch == SubSeq(texts, i + 1, Min({i + batch_size, Len(texts)})) IN
         _get_embeddings_batch(batch, answers[i \div batch_size + 1])
             \o embed_batches(texts, i + batch_size, answers)

\* build_index_from_dataframe on a table with at least one row: one document
\* per row in row order (the text and metadata columns and the two internal
\* fields, _document_id counting from 0), the embeddings batch by batch, the
\* faiss index over them, then memory and disk.
build_index_from_dataframe(st, df, answers, save, t) ==
    LET docs == [k \in 1..Len(df) |->
                    [Category |-> df[k].Category, Question |-> df[k].Question,
                     Answer |-> df[k].Answer, _source_id |-> "company_faqs",
                     _document_id |-> k - 1]] IN
    _save_index([st EXCEPT !.indexes = Some(embed_batches(df, 0, answers)),
                           !.documents = Some(docs),
                           !.last_updated = t], save)

\* build_index_from_dataframe called by build_index_for_company_faqs, which
\* reads the csv itself and catches every exception: no file, no row
\* (_create_faiss_index raises on an empty embedding list), or faiss raising
\* leaves the store as it was.
build_index_for_company_faqs(st, embeds, save, t) ==
    IF csv = Missing \/ Get(csv) = <<>> \/ save = "index_build_raises" THEN st
    ELSE build_index_from_dataframe(st, Get(csv), <<embeds>>, save, t)

\* list_indexes names company_faqs: both files are on disk.
index_exists(st) == st.index_file # Missing /\ st.data_file # Missing

\* The condition of _ensure_faq_index: no index on disk, or the csv is newer
\* than the engine's last_updated.
Stale(st) ==
    \/ ~index_exists(st)
    \/ csv # Missing /\ csv_mtime > st.last_updated

\* _ensure_faq_index: build when there is no index on disk or the csv is
\* newer than the engine's last_updated (0 when the engine has none).
_ensure_faq_index(st, embeds, save, t) ==
    IF Stale(st)
    THEN build_index_for_company_faqs(st, embeds, save, t)
    ELSE st

\* _load_index: read both files into memory; False when one is missing.
_load_index(st) ==
    IF st.index_file = Missing \/ st.data_file = Missing THEN st
    ELSE [st EXCEPT !.indexes = st.index_file,
                    !.documents = Some(Get(st.data_file).documents),
                    !.last_updated = Get(st.data_file).last_updated]

\* IndexFlatL2.search: the positions of the top_k nearest vectors, nearest
\* first (squared L2 distance, equal distances by position).
distance(v, q) == (v - q) * (v - q)
faiss_search(vectors, q, top_k) ==
    LET Nearer(i, j) ==
            \/ distance(vectors[i], q) < distance(vectors[j], q)
            \/ distance(vectors[i], q) = distance(vectors[j], q) /\ i < j
        at == 1..Len(vectors)
    IN  head(OrderBy(at, {p \in at \X at : Nearer(p[1], p[2])}), top_k)

\* Steps 2-4 of search on a resident index: each hit that has a document,
\* scored 1 / (1 + distance) (in thousandths).
search_resident(st, query, top_k, embeds) ==
    LET q == _get_embedding(query, embeds)
        vectors == Get(st.indexes)
        docs == Get(st.documents)
        hits == faiss_search(vectors, q, top_k)
        HasDoc(i) == i <= Len(docs)
        kept == SelectSeq(hits, HasDoc) IN
    [k \in 1..Len(kept) |->
        scored(docs[kept[k]],
               1000 \div (1 + distance(vectors[kept[k]], q)))]

\* Variant of search that scores and strips the stored documents themselves
\* instead of copies of them.
search_in_place(st, query, top_k, embeds) ==
    LET st1 == IF st.indexes = Missing THEN _load_index(st) ELSE st IN
    IF st1.indexes = Missing \/ st1.documents = Missing
    THEN [store |-> st1, results |-> <<>>]
    ELSE LET results == search_resident(st1, query, top_k, embeds)
             docs == Get(st1.documents)
             Hit(k) == \E i \in 1..Len(results) :
                           /\ results[i].Question = docs[k].Question
                           /\ results[i].Answer = docs[k].Answer
             OfHit(k) == CHOOSE i \in 1..Len(results) :
                           /\ results[i].Question = docs[k].Question
                           /\ results[i].Answer = docs[k].Answer IN
         [store |-> [st1 EXCEPT !.documents =
                        Some([k \in 1..Len(docs) |->
                                 IF Hit(k) THEN results[OfHit(k)] ELSE docs[k]])],
          results |-> results]

\* VectorSearchEngine.search: the store afterwards and the results.  Each
\* result is a copy of the stored document with "_score" added and the
\* internal fields removed; the stored documents are not touched.
search(st, query, top_k, embeds) ==
    LET st1 == IF st.indexes = Missing THEN _load_index(st) ELSE st IN
    IF st1.indexes = Missing \/ st1.documents = Missing
    THEN [store |-> st1, results |-> <<>>]
    ELSE [store |-> st1, results |-> search_resident(st1, query, top_k, embeds)]

\* DataManager.search_faqs: the store afterwards, the results, whether they
\* come from the text search, and whether the call raised.  An exception of
\* the text search called in the try block is caught by the except clause,
\* which calls the text search again; that second exception leaves the call.
search_faqs(st, query, limit, embeds, save, t) ==
    LET st1 == _ensure_faq_index(st, embeds, save, t)
        r == search(st1, query, limit, embeds) IN
    IF r.results # <<>>
    THEN [store |-> r.store, results |-> r.results, fallback |-> FALSE,
          raised |-> FALSE]
    ELSE IF fallback_raises(frame, query)
    THEN [store |-> r.store, results |-> <<>>, fallback |-> TRUE, raised |-> TRUE]
    ELSE [store |-> r.store, results |-> _fallback_text_search(frame, query, limit),
          fallback |-> TRUE, raised |-> FALSE]

\* What a retrieval call returned: the results, whether they come from the
\* text search, the scarcity note assembled from them, whether the engine
\* read the index from disk for it, whether the query was embedded,
\* whether the call found the index missing or older than the csv (stale),
\* and whether the call raised instead of returning.
Found(op, query, limit, results, fallback, loaded, embeds, stale, raised) ==
    [op |-> op, query |-> query, limit |-> limit, results |-> results,
     fallback |-> fallback,
     scarcity_note |-> build_context_from_results(results).scarcity_note,
     loaded |-> loaded, embeds |-> embeds, stale |-> stale, raised |-> raised]
NothingFound == Found("none", <<>>, 0, <<>>, FALSE, FALSE, FALSE, FALSE, FALSE)

\* _ensure_faq_index gets as far as building an index from the csv (only then
\* does the way the build ends matter).
Builds(st) == csv # Missing /\ Get(csv) # <<>> /\ Stale(st)

\* The history of the latest build: what it put in memory, whether its
\* persist wrote both files, and whether it ran although the index pair then
\* on disk had been built no earlier than the csv was written (fresh).
Built(st, after, save) ==
    IF Builds(st) /\ save # "index_build_raises"
    THEN [indexes |-> after.indexes, documents |-> after.documents,
          persisted |-> save = "saved",
          fresh |-> /\ index_exists(st)
                    /\ csv_mtime <= Get(st.data_file).last_updated]
    ELSE built

\* The FAQ file is written (by an administrator, outside the program).
WriteCsv(rows) ==
    /\ front = "retrieval"
    /\ found = NothingFound
    /\ now < MaxClock
    /\ csv' = Some(rows)
    /\ csv_mtime' = now + 1
    /\ now' = now + 1
    /\ found' = NothingFound
    /\ UNCHANGED <<front, chat, requests, turns, uploads, batches, frame, engine, disk, built>>

\* The process starts: a new VectorSearchEngine (empty memory), then
\* DataManager.__init__: load_company_faqs and _ensure_faq_index.
Restart(embeds, save) ==
    /\ front = "retrieval"
    /\ found = NothingFound
    /\ Builds(Store(Missing, Missing, 0, index_file, data_file)) \/ save = "saved"
    /\ LET st == Store(Missing, Missing, 0, index_file, data_file)
           after == _ensure_faq_index(st, embeds, save, now) IN
       /\ frame' = csv
       /\ indexes' = after.indexes
       /\ documents' = after.documents
       /\ last_updated' = after.last_updated
       /\ index_file' = after.index_file
       /\ data_file' = after.data_file
       /\ built' = Built(st, after, save)
    /\ found' = NothingFound
    /\ UNCHANGED <<front, chat, requests, turns, uploads, batches, now, csv, csv_mtime>>

\* DataManager.search_faqs(query, limit).
SearchFaqs(query, limit, embeds, save) ==
    /\ front = "retrieval"
    /\ found = NothingFound
    /\ Builds(TheStore) \/ save = "saved"
    /\ LET r == search_faqs(TheStore, query, limit, embeds, save, now)
           after == _ensure_faq_index(TheStore, embeds, save, now) IN
       /\ indexes' = r.store.indexes
       /\ documents' = r.store.documents
       /\ last_updated' = r.store.last_updated
       /\ index_file' = r.store.index_file
       /\ data_file' = r.store.data_file
       /\ built' = Built(TheStore, after, save)
       /\ found' = Found("search_faqs", query, limit, r.results, r.fallback,
                         after.indexes = Missing /\ r.store.indexes # Missing, embeds,
                         Stale(TheStore), r.raised)
    /\ UNCHANGED <<front, chat, requests, turns, uploads, batches, now, csv, csv_mtime, frame>>

\* VectorSearchEngine.search(query, "company_faqs", top_k).
VectorSearch(query, top_k, embeds) ==
    /\ front = "retrieval"
    /\ found = NothingFound
    /\ LET r == search(TheStore, query, top_k, embeds) IN
       /\ indexes' = r.store.indexes
       /\ documents' = r.store.documents
       /\ last_updated' = r.store.last_updated
       /\ found' = Found("search", query, top_k, r.results, FALSE,
                         indexes = Missing /\ r.store.indexes # Missing, embeds, FALSE,
                         FALSE)
    /\ UNCHANGED <<front, chat, requests, turns, uploads, batches, now, csv, csv_mtime, frame, disk, built>>

\* Result lists context assembly may be given: up to two results, each with a
\* score or without one.
Scores == {NoScore, FallbackScore, RelevanceThreshold, RelevanceThreshold + 1}
ResultInputs ==
    {<<>>}
    \cup {<<scored(FaqRefund, a)>> : a \in Scores}
    \cup {<<scored(FaqRefund, a), scored(FaqReset, b)>> :
             a \in Scores, b \in {NoScore, RelevanceThreshold + 1}}

\* build_context_from_results(results), as the chat handlers call it.
BuildContext(results) ==
    /\ front = "retrieval"
    /\ found = NothingFound
    /\ found' = Found("build_context", <<>>, 0, results, FALSE, FALSE, FALSE, FALSE,
                        FALSE)
    /\ UNCHANGED <<front, chat, requests, turns, uploads, batches, now, csv, csv_mtime, frame, engine, disk, built>>

\* DataManager.search_uploaded_file(query, file_id, limit) over the upload
\* directory and the index pair of source "uploaded_<file_id>". With the
\* index pair on disk it is VectorSearchEngine.search on that source. Without
\* it and without the csv it returns []. Without it and with the csv it looks
\* up vector_search.build_index_for_uploaded_file, which VectorSearchEngine
\* does not define: the AttributeError is caught by the handler of the whole
\* body, which returns []; nothing is built and nothing is written.
search_uploaded_file(up, query, limit, embeds) ==
    IF index_exists(up)
    THEN [uploads |-> up,
          results |-> search(Store(Missing, Missing, 0, up.index_file, up.data_file),
                             query, limit, embeds).results]
    ELSE [uploads |-> up, results |-> <<>>]

\* Tables an uploaded csv may hold.
UploadedTables == {<<FaqRefund>>}

\* A csv is put into the upload directory (outside the program: no handler
\* of the program writes there).
WriteUpload(rows) ==
    /\ front = "retrieval"
    /\ found = NothingFound
    /\ uploads' = [uploads EXCEPT !.csv = Some(rows)]
    /\ found' = NothingFound
    /\ UNCHANGED <<front, chat, requests, turns, batches, now, csv, csv_mtime, frame, engine, disk, built>>

\* DataManager.search_uploaded_file(query, file_id, limit).
SearchUploadedFile(query, limit, embeds) ==
    /\ front = "retrieval"
    /\ found = NothingFound
    /\ LET r == search_uploaded_file(uploads, query, limit, embeds) IN
       /\ uploads' = r.uploads
       /\ found' = Found("search_uploaded_file", query, limit, r.results, FALSE,
                         FALSE, embeds, FALSE, FALSE)
    /\ UNCHANGED <<front, chat, requests, turns, batches, now, csv, csv_mtime, frame, engine, disk, built>>

\* A table of n rows, the two FAQ rows in turn.
LongTable(n) == [k \in 1..n |-> IF k % 2 = 1 THEN FaqRefund ELSE FaqReset]

\* The number of batches of n texts.
NumBatches(n) == (n - 1) \div batch_size + 1

\* VectorSearchEngine.build_index_from_dataframe on a table of n rows, in a
\* process that has built nothing yet; the provider answers or fails each
\* batch on its own.
BuildIndexFromDataframe(n, answers) ==
    /\ front = "batching"
    /\ batches = <<>>
    /\ LET after == build_index_from_dataframe(TheStore, LongTable(n), answers,
                                               "saved", now + 1) IN
       /\ indexes' = after.indexes
       /\ documents' = after.documents
       /\ last_updated' = after.last_updated
       /\ index_file' = after.index_file
       /\ data_file' = after.data_file
    /\ batches' = answers
    /\ now' = now + 1
    /\ UNCHANGED <<front, chat, requests, turns, uploads, csv, csv_mtime, frame, built, found>>

\* The caller takes what the call returned; the next call can be made.
Respond ==
    /\ front = "retrieval"
    /\ found # NothingFound
    /\ found' = NothingFound
    /\ UNCHANGED <<front, chat, requests, turns, uploads, batches, now, csv, csv_mtime, frame, engine, disk, built>>

RetrievalNext ==
    \/ \E rows \in Tables : WriteCsv(rows)
    \/ \E e \in Embeds, sv \in Saves : Restart(e, sv)
    \/ \E q \in Queries, n \in Limits, e \in Embeds, sv \in Saves : SearchFaqs(q, n, e, sv)
    \/ \E q \in Queries, n \in Limits, e \in Embeds : VectorSearch(q, n, e)
    \/ \E r \in ResultInputs : BuildContext(r)
    \/ \E rows \in UploadedTables : WriteUpload(rows)
    \/ \E q \in Queries, n \in Limits, e \in Embeds : SearchUploadedFile(q, n, e)
    \/ Respond

\* ------------------------------------------------------------------ turns in flight
\* A conversation turn as a coroutine: it stores the user message, awaits the
\* language model, and stores the assistant message.  The await is where the
\* event loop may run another request; nothing else in the turn can be
\* interleaved.  at is "none" (not started), "llm" (at the await), "done"
\* or "refused" (the handler returned without storing).
TurnAt(at, chat_id, user_message_id, assistant_message_id) ==
    [at |-> at, chat_id |-> chat_id, user_message_id |-> user_message_id,
     assistant_message_id |-> assistant_message_id]
NoTurn == TurnAt("none", 0, 0, 0)

\* Incognito ids a turn may name: every live session and one unknown id.
TurnChatIds == DOMAIN incognito_chats \cup {incognito_id}

\* ChatService.process_user_message on an incognito id, up to the await of
\* the language model: add_message stores the user message, or refuses.
CS_TurnUser(r, chat_id) ==
    /\ front = "service"
    /\ turns[r].at = "none"
    /\ LET a == cs_add_message(incognito_chats, incognito_messages, chat_sessions,
                               chat_messages, message_seq, chat_id, "user",
                               "question", now) IN
       /\ incognito_chats' = a.chats
       /\ incognito_messages' = a.msgs
       /\ turns' = [turns EXCEPT ![r] =
                       IF a.ok THEN TurnAt("llm", chat_id, a.id, 0)
                       ELSE TurnAt("refused", chat_id, 0, 0)]
    /\ now' = now + 1
    /\ UNCHANGED <<front, incognito_id, durable, allocated, deleted, last,
                   retrieval, requests>>

\* ChatService.process_user_message from the await on: the fallback text for
\* an empty answer, then add_message stores the assistant message.
CS_TurnAssistant(r, llm) ==
    /\ front = "service"
    /\ turns[r].at = "llm"
    /\ LET a == cs_add_message(incognito_chats, incognito_messages, chat_sessions,
                               chat_messages, message_seq, turns[r].chat_id,
                               "assistant", cs_ai_response(generate_response(llm)),
                               now) IN
       /\ incognito_chats' = a.chats
       /\ incognito_messages' = a.msgs
       /\ turns' = [turns EXCEPT ![r] =
                       IF a.ok THEN TurnAt("done", @.chat_id, @.user_message_id, a.id)
                       ELSE TurnAt("refused", @.chat_id, @.user_message_id, 0)]
    /\ now' = now + 1
    /\ UNCHANGED <<front, incognito_id, durable, allocated, deleted, last,
                   retrieval, requests>>

\* send_message with is_incognito on an existing incognito id, up to the
\* await of the language model: 404 or 403, or the user message appended.
EP_TurnUser(r, user_id, chat_id) ==
    /\ front = "endpoint"
    /\ turns[r].at = "none"
    /\ LET status == EP_send_status(user_id, chat_id, TRUE) IN
       IF status # "ok"
       THEN /\ turns' = [turns EXCEPT ![r] = TurnAt("refused", chat_id, 0, 0)]
            /\ UNCHANGED incognito_messages
       ELSE LET M1 == ep_append(incognito_messages, chat_id, "user", "question") IN
            /\ incognito_messages' = M1
            /\ turns' = [turns EXCEPT ![r] =
                            TurnAt("llm", chat_id, Len(M1[chat_id]), 0)]
    /\ now' = now + 1
    /\ UNCHANGED <<front, incognito_chats, incognito_id, durable, allocated, deleted,
                   last, retrieval, requests>>

\* send_message from the await on: the assistant message appended.
EP_TurnAssistant(r, llm) ==
    /\ front = "endpoint"
    /\ turns[r].at = "llm"
    /\ LET M2 == ep_append(incognito_messages, turns[r].chat_id, "assistant",
                           get_chat_response(llm)) IN
       /\ incognito_messages' = M2
       /\ turns' = [turns EXCEPT ![r] =
                       TurnAt("done", @.chat_id, @.user_message_id,
                              Len(M2[@.chat_id]))]
    /\ now' = now + 1
    /\ UNCHANGED <<front, incognito_chats, incognito_id, durable, allocated, deleted,
                   last, retrieval, requests>>

TurnNext ==
    \/ \E u \in Users : CS_CreateChatSession(u, None, TRUE)
                            /\ UNCHANGED <<retrieval, requests, turns>>
    \/ \E u \in Users : EP_CreateChatSession(u, None, FALSE, TRUE)
                            /\ UNCHANGED <<retrieval, requests, turns>>
    \/ \E r \in 1..MaxTurns, c \in TurnChatIds : CS_TurnUser(r, c)
    \/ \E r \in 1..MaxTurns, o \in LLMOutcomes : CS_TurnAssistant(r, o)
    \/ \E r \in 1..MaxTurns, u \in Users, c \in TurnChatIds : EP_TurnUser(r, u, c)
    \/ \E r \in 1..MaxTurns, o \in LLMOutcomes : EP_TurnAssistant(r, o)

\* ------------------------------------------------------------------ event loop
\* The durable-store calls send_message makes for a message to an existing
\* durable session, in order. Each is a plain call in the body of the
\* coroutine: it runs on the thread that runs the coroutine, the event
\* loop's. (run_sync, which would hand a call to the db_ pool, has no caller.)
SendMessageCalls ==
    <<"get_user_chat_sessions", "add_message_to_chat", "get_chat_messages",
      "add_message_to_chat", "log_chat">>

\* Where a request is: at is "none" (not arrived), "queued" (its task waits
\* for the loop), "running" (the loop runs its handler), "sql" (its handler
\* is inside a durable call) or "done"; thread names the thread executing
\* the durable call in progress ("loop", a "db_" pool worker, or "none").
Request(at, calls, thread) == [at |-> at, calls |-> calls, thread |-> thread]
NotArrived == Request("none", 0, "none")

\* The event loop is running some handler.
LoopBusy == \E r \in DOMAIN requests : requests[r].at \in {"running", "sql"}

\* A request arrives: its task is scheduled on the loop.
Arrive(r) ==
    /\ front = "loop"
    /\ requests[r].at = "none"
    /\ requests' = [requests EXCEPT ![r].at = "queued"]
    /\ UNCHANGED <<front, chat, retrieval, turns, now>>

\* The loop, running nothing, takes a scheduled task and runs its handler.
RunHandler(r) ==
    /\ front = "loop"
    /\ ~LoopBusy
    /\ requests[r].at = "queued"
    /\ requests' = [requests EXCEPT ![r].at = "running"]
    /\ UNCHANGED <<front, chat, retrieval, turns, now>>

\* The running handler makes its next durable call, inline.
DurableCall(r) ==
    /\ front = "loop"
    /\ requests[r].at = "running"
    /\ requests[r].calls < Len(SendMessageCalls)
    /\ requests' = [requests EXCEPT ![r] = Request("sql", @.calls + 1, "loop")]
    /\ UNCHANGED <<front, chat, retrieval, turns, now>>

\* The durable call returns to the handler.
DurableReturn(r) ==
    /\ front = "loop"
    /\ requests[r].at = "sql"
    /\ requests' = [requests EXCEPT ![r] = Request("running", @.calls, "none")]
    /\ UNCHANGED <<front, chat, retrieval, turns, now>>

\* The handler returns its response; the loop is free again.
Finish(r) ==
    /\ front = "loop"
    /\ requests[r].at = "running"
    /\ requests[r].calls = Len(SendMessageCalls)
    /\ requests' = [requests EXCEPT ![r].at = "done"]
    /\ UNCHANGED <<front, chat, retrieval, turns, now>>

LoopNext ==
    \/ \E r \in 1..MaxRequests : Arrive(r)
    \/ \E r \in 1..MaxRequests : RunHandler(r)
    \/ \E r \in 1..MaxRequests : DurableCall(r)
    \/ \E r \in 1..MaxRequests : DurableReturn(r)
    \/ \E r \in 1..MaxRequests : Finish(r)

\* ------------------------------------------------------------------ specification
\* Before the FAQ file exists: nothing loaded, nothing indexed.
RetrievalIdle ==
    /\ csv = Missing /\ csv_mtime = 0 /\ frame = Missing
    /\ indexes = Missing /\ documents = Missing /\ last_updated = 0
    /\ index_file = Missing /\ data_file = Missing
    /\ built = [indexes |-> Missing, documents |-> Missing, persisted |-> FALSE,
                fresh |-> FALSE]
    /\ uploads = [csv |-> Missing, index_file |-> Missing, data_file |-> Missing]
    /\ batches = <<>>
    /\ found = NothingFound
    /\ requests = [r \in 1..MaxRequests |-> NotArrived]
    /\ turns = [r \in 1..MaxTurns |-> NoTurn]

Init ==
    /\ front \in Fronts
    /\ RetrievalIdle
    /\ incognito_chats = EmptyMap
    /\ incognito_messages = EmptyMap
    /\ incognito_id = -1
    /\ chat_sessions = EmptyMap
    /\ chat_messages = <<>>
    /\ session_seq = 0
    /\ message_seq = 0
    /\ chat_logs = 0
    /\ now = 0
    /\ allocated = <<>>
    /\ deleted = {}
    /\ last = Call("init", 0, 0, "ok", 0)

Next ==
    \/ ServiceNext /\ UNCHANGED <<retrieval, requests, turns>>
    \/ ManagerNext /\ UNCHANGED <<retrieval, requests, turns>>
    \/ EndpointNext /\ UNCHANGED <<retrieval, requests, turns>>

Spec == Init /\ [][Next]_vars

\* The retrieval side on its own: the FAQ table, the index store and search.
RetrievalInit ==
    /\ front = "retrieval"
    /\ incognito_chats = EmptyMap
    /\ incognito_messages = EmptyMap
    /\ incognito_id = -1
    /\ chat_sessions = EmptyMap
    /\ chat_messages = <<>>
    /\ session_seq = 0
    /\ message_seq = 0
    /\ chat_logs = 0
    /\ now = 0
    /\ allocated = <<>>
    /\ deleted = {}
    /\ last = Call("init", 0, 0, "ok", 0)
    /\ RetrievalIdle

RetrievalSpec == RetrievalInit /\ [][RetrievalNext]_vars

\* One build of an index over a table of several batches.
BatchInit ==
    /\ front = "batching"
    /\ incognito_chats = EmptyMap
    /\ incognito_messages = EmptyMap
    /\ incognito_id = -1
    /\ chat_sessions = EmptyMap
    /\ chat_messages = <<>>
    /\ session_seq = 0
    /\ message_seq = 0
    /\ chat_logs = 0
    /\ now = 0
    /\ allocated = <<>>
    /\ deleted = {}
    /\ last = Call("init", 0, 0, "ok", 0)
    /\ RetrievalIdle

BatchNext ==
    \E n \in 1..MaxTexts : \E answers \in [1..NumBatches(n) -> BOOLEAN] :
        BuildIndexFromDataframe(n, answers)

BatchSpec == BatchInit /\ [][BatchNext]_vars

\* Conversation turns on incognito sessions, interleaved at their awaits, in
\* ChatService and in the endpoint.
TurnInit == Init /\ front \in {"service", "endpoint"}

TurnSpec == TurnInit /\ [][TurnNext]_vars

\* Requests served by the one event loop of the process.
LoopInit ==
    /\ front = "loop"
    /\ incognito_chats = EmptyMap
    /\ incognito_messages = EmptyMap
    /\ incognito_id = -1
    /\ chat_sessions = EmptyMap
    /\ chat_messages = <<>>
    /\ session_seq = 0
    /\ message_seq = 0
    /\ chat_logs = 0
    /\ now = 0
    /\ allocated = <<>>
    /\ deleted = {}
    /\ last = Call("init", 0, 0, "ok", 0)
    /\ RetrievalIdle

LoopSpec == LoopInit /\ [][LoopNext]_vars

\* ------------------------------------------------------------------ readers
\* The session exists in the store its sign routes to.
SessionExists(chat_id) ==
    IF chat_id < 0 THEN chat_id \in DOMAIN incognito_chats
    ELSE chat_id \in DOMAIN chat_sessions

Owner(chat_id) ==
    IF chat_id < 0 THEN incognito_chats[chat_id].user_id
    ELSE chat_sessions[chat_id].user_id

\* listMessages of the front end under exercise.
ListMessages(chat_id) ==
    IF front = "service" THEN CS_get_chat_messages(chat_id)
    ELSE IF front = "manager" THEN CM_get_chat_history(chat_id)
    ELSE EP_get_chat_history(chat_id)

Abs(n) == IF n < 0 THEN -n ELSE n

\* ------------------------------------------------------------------ claims

\* C1: every session id the durable store hands out is > 0, every id handed
\* out for an incognito session is < 0, and no create (nor a send that makes
\* its session) answers with id 0.
C1_IdSigns ==
    /\ \A id \in DOMAIN chat_sessions : id > 0
    /\ \A id \in DOMAIN incognito_chats : id < 0
    /\ \A i \in 1..Len(allocated) : allocated[i] < 0
    /\ (last.op = "create" \/ (last.op = "turn" /\ last.status = "ok")) =>
          /\ last.chat_id # 0
          /\ last.mode = "incognito" => last.chat_id < 0
          /\ last.mode = "durable" => last.chat_id > 0

C1_Witness ==
    /\ last.op = "create"
    /\ Len(allocated) > 0
    /\ DOMAIN chat_sessions # {}

\* C2 (as claimed): incognito ids come from a counter that starts at -1 and
\* only decreases, so each id handed out is below every id handed out before.
C2_Original ==
    /\ Len(allocated) > 0 => allocated[1] = -1
    /\ \A i, j \in 1..Len(allocated) : i < j => allocated[j] < allocated[i]

\* C3 (as claimed): once delete has succeeded on an incognito id, every read of
\* that id and every addMessage on it reports not-found.
C3_Original ==
    \A e \in deleted :
        /\ front = "service" =>
              /\ ~CS_get_chat_session(e, 0)
              /\ \A u \in Users : ~CS_verify_chat_owner(e, u)
              /\ CS_get_chat_messages_status(e) # "ok"
              /\ ~cs_add_message(incognito_chats, incognito_messages, chat_sessions,
                                 chat_messages, message_seq, e, "user", "text", now).ok
        /\ front = "manager" =>
              /\ \A u \in Users : CM_get_chat_history_status(e, u) # "ok"
              /\ CM_add_message_status(e) # "ok"
        /\ front = "endpoint" =>
              /\ \A u \in Users : EP_get_chat_history_status(e, u) # "ok"
              /\ \A u \in Users : EP_send_status(u, e, TRUE) # "ok"

\* C4: a call made in the incognito regime, a call on a negative session id and
\* the bulk clear leave the durable store (sessions, messages, id sequences,
\* chat log) exactly as it was.
C4_EphemeralLeavesDurable ==
    [][(last'.mode = "incognito" \/ last'.chat_id < 0 \/ last'.op = "clear")
          => UNCHANGED durable]_vars

C4_Witness ==
    /\ last.op \in {"add_message", "turn"} /\ last.status = "ok"
    /\ last.chat_id < 0
    /\ last.chat_id \in DOMAIN incognito_chats
    /\ DOMAIN chat_sessions # {}

\* C5 (as claimed): an update aimed at a negative session id is rejected and
\* leaves the incognito sessions as they were.
C5_Original ==
    [][(last'.op = "update" /\ last'.chat_id < 0)
          => (last'.status # "ok" /\ incognito_chats' = incognito_chats)]_vars

\* C6: the bulk clear for a user removes exactly that user's incognito sessions
\* and their message lists, keeps every other incognito session and message
\* list and the durable store unchanged, and answers with the number of
\* sessions it removed.
C6_ClearExactlyOwner ==
    [][last'.op = "clear" =>
          LET removed == {c \in DOMAIN incognito_chats :
                             incognito_chats[c].user_id = last'.user} IN
          /\ DOMAIN incognito_chats' = DOMAIN incognito_chats \ removed
          /\ \A c \in DOMAIN incognito_chats' : incognito_chats'[c] = incognito_chats[c]
          /\ DOMAIN incognito_messages' = DOMAIN incognito_messages \ removed
          /\ \A c \in DOMAIN incognito_messages' :
                incognito_messages'[c] = incognito_messages[c]
          /\ UNCHANGED durable
          /\ last'.value = Cardinality(removed)]_vars

C6_Witness ==
    /\ last.op = "clear" /\ last.value >= 1
    /\ \E c \in DOMAIN incognito_chats :
          /\ incognito_chats[c].user_id # last.user
          /\ Len(incognito_messages[c]) > 0

C8_Original ==
    \A u \in Users :
      \A x \in DOMAIN incognito_chats \cup DOMAIN chat_sessions :
        \A y \in ChatIdInputs :
          (/\ Owner(x) # u
           /\ ~SessionExists(y)
           /\ (x < 0) = (y < 0)) =>
              /\ front = "service" =>
                    /\ CS_verify_chat_owner(x, u) = CS_verify_chat_owner(y, u)
                    /\ CS_get_chat_session(x, u) = CS_get_chat_session(y, u)
              /\ front = "manager" =>
                    /\ CM_get_chat_history_status(x, u) = CM_get_chat_history_status(y, u)
                    /\ CM_delete_status(x, u) = CM_delete_status(y, u)
              /\ front = "endpoint" =>
                    /\ EP_get_chat_history_status(x, u) = EP_get_chat_history_status(y, u)
                    /\ EP_delete_status(x, u) = EP_delete_status(y, u)
                    /\ EP_send_status(u, x, x < 0) = EP_send_status(u, y, y < 0)

\* C9 (as claimed): a turn asked for by a caller on an existing session of
\* another owner is rejected and writes no session and no message.
C9_Original ==
    [][(/\ last'.op = "turn"
        /\ SessionExists(last'.chat_id)
        /\ Owner(last'.chat_id) # last'.user)
          => /\ last'.status # "ok"
             /\ UNCHANGED <<incognito_chats, incognito_messages,
                            chat_sessions, chat_messages>>]_vars

\* C10: when a turn stored its user message and the language model, called
\* next, failed (it raised or gave nothing), the turn still succeeds and the
\* thread ends with the user message followed by an assistant message carrying
\* the fixed error text.
C10_FailedModelStillAnswers ==
    (/\ last.op = "turn"
     /\ last.user_message_id # 0
     /\ last.llm \in {"empty", "raises"}) =>
        LET L == ListMessages(last.chat_id)
            n == Len(L) IN
        /\ last.status = "ok"
        /\ n >= 2
        /\ L[n - 1].role = "user"
        /\ L[n].role = "assistant"
        /\ L[n].id = last.value
        /\ L[n].content = (IF front = "service" THEN CsErrorText ELSE EpErrorText)

C10_Witness ==
    /\ last.op = "turn" /\ last.llm = "raises" /\ last.status = "ok"
    /\ last.user_message_id # 0
    /\ Len(ListMessages(last.chat_id)) >= 2

\* The assistant messages of a thread.
AssistantMessages(L) ==
    LET ByAssistant(m) == m.role = "assistant" IN SelectSeq(L, ByAssistant)

Pages == {1, 2}
PageSizes == {1, 2}

\* listSessions of the front end under exercise.
ListSessions(user_id, include_archived, include_incognito, page, page_size) ==
    IF front = "service"
    THEN CS_get_user_chats(user_id, include_archived, include_incognito)
    ELSE IF front = "manager"
    THEN CM_get_user_chats(user_id, include_archived, include_incognito, page, page_size)
    ELSE EP_get_chat_sessions(user_id, include_archived, include_incognito, page, page_size)

Ids(L) == {L[i].id : i \in 1..Len(L)}

Roles(L) == [i \in 1..Len(L) |-> L[i].role]

AllEntries(user_id, include_archived) ==
    LET ids == db_get_user_chat_sessions(user_id, include_archived)
        inc == incognito_entries(user_id,
                   IF front = "endpoint" THEN CreatedAt ELSE UpdatedAt)
    IN  {db_session_entry(id) : id \in ids} \cup {inc[i] : i \in 1..Len(inc)}

\* Most recently updated first (equal stamps: higher id first).
MoreRecent(a, b) ==
    \/ a.updated_at > b.updated_at
    \/ a.updated_at = b.updated_at /\ a.id > b.id

\* C14 (as claimed): a listing with incognito sessions is the page-th slice of
\* the user's durable and incognito sessions merged and sorted by most recent
\* update, so it never holds more than page_size sessions.
C14_Original ==
    \A u \in Users, a \in BOOLEAN, p \in Pages, n \in PageSizes \cup {DefaultSessionLimit} :
      \* ChatService.get_user_chats takes no page: it is page 1 of the default size
      (front = "service" => (p = 1 /\ n = DefaultSessionLimit)) =>
        LET L == ListSessions(u, a, TRUE, p, n)
            all == AllEntries(u, a)
            merged == OrderBy(all, {q \in all \X all : MoreRecent(q[1], q[2])})
            slice == Slice(merged, n, (p - 1) * n) IN
        /\ Len(L) <= n
        /\ [i \in 1..Len(L) |-> L[i].id] = [i \in 1..Len(slice) |-> slice[i].id]

\* C15: context assembly gives a non-empty scarcity note exactly when the
\* result list is empty or no result scores above 0.7, and an empty note when
\* some result scores above 0.7 (a score of exactly 0.7 still gets the note).
C15_ScarcityNote ==
    found.op # "none" =>
        LET relevant == \E i \in 1..Len(found.results) :
                            found.results[i]._score > RelevanceThreshold IN
        /\ (found.scarcity_note # "") <=> (found.results = <<>> \/ ~relevant)
        /\ relevant => found.scarcity_note = ""

C15_Witness ==
    /\ found.op = "build_context"
    /\ Len(found.results) = 2
    /\ found.results[1]._score = RelevanceThreshold
    /\ found.results[2]._score = NoScore
    /\ found.scarcity_note = LowRelevanceNote

\* C16 (as claimed): when the FAQ source table is empty (the file holds no
\* row and the table loaded from it holds none), search_faqs returns no result
\* and the scarcity note assembled from it is non-empty, whatever the index
\* store holds in memory and on disk.
C16_Original ==
    (found.op = "search_faqs" /\ csv = Some(<<>>) /\ frame = Some(<<>>)) =>
        /\ found.results = <<>>
        /\ found.scarcity_note # ""

\* search_faqs has answered over the one-row refund table with no vector index
\* to be had: none resident, none loadable from disk, none built.
OneRowNoIndex ==
    /\ found.op = "search_faqs"
    /\ frame = Some(<<FaqRefund>>)
    /\ indexes = Missing

\* C17 (as claimed): with the single refund row and no vector index,
\* search_faqs('refund policy') falls back to the text search and returns that
\* row with score 0.5.
C17_Original ==
    (OneRowNoIndex /\ found.query = RefundPolicy) =>
        /\ found.fallback
        /\ found.results = <<scored(FaqRefund, FallbackScore)>>

\* C17 (amended): with the single refund row and no vector index, search_faqs
\* falls back to the text search; 'refund policy' is a substring of no field
\* of the row, so it returns no row, while 'Refund' (a substring once case is
\* folded) returns that row with score 0.5.
C17_Amended ==
    /\ (OneRowNoIndex /\ found.query = RefundPolicy) =>
          (found.fallback /\ found.results = <<>>)
    /\ (OneRowNoIndex /\ found.query = Refund) =>
          (found.fallback /\ found.results = <<scored(FaqRefund, FallbackScore)>>)

C17_Witness ==
    /\ OneRowNoIndex
    /\ found.query = Refund
    /\ found.fallback
    /\ Len(found.results) = 1

\* q occurs in text as a substring, character for character.
Substring(text, q) ==
    \E k \in 0..(Len(text) - Len(q)) : SubSeq(text, k + 1, k + Len(q)) = q

\* The query occurs, case folded, in the row's question, answer or category.
Occurs(row, query) ==
    \/ Substring(lower(row.Question), lower(query))
    \/ Substring(lower(row.Answer), lower(query))
    \/ Substring(lower(row.Category), lower(query))

\* C18 (as claimed): whenever the vector search gives no row, search_faqs
\* returns exactly the first at most limit rows of the table in which the
\* query occurs as a case-insensitive substring of the question, answer or
\* category, each with score 0.5; when the vector search gives a row, the
\* result is the vector search's and not the text search's.
C18_Original ==
    found.op = "search_faqs" =>
        LET rows == IF frame = Missing THEN <<>> ELSE Get(frame)
            Hit(row) == Occurs(row, found.query)
            first == head(SelectSeq(rows, Hit), found.limit) IN
        /\ found.fallback =>
              found.results = [i \in 1..Len(first) |-> scored(first[i], FallbackScore)]
        /\ ~found.fallback => found.results # <<>>

C20_Original ==
    /\ (indexes # Missing /\ documents # Missing) =>
          Len(Get(documents)) = Len(Get(indexes))
    /\ (index_file # Missing /\ data_file # Missing) =>
          Len(Get(data_file).documents) = Len(Get(index_file))

\* C27 (as claimed): an incognito session is never archived (no in-memory
\* record carries an archived mark), and an incognito session ended by a
\* delete is never a session again.
C27_Original ==
    /\ \A c \in DOMAIN incognito_chats :
          "is_archived" \in DOMAIN incognito_chats[c] => ~incognito_chats[c].is_archived
    /\ \A e \in deleted : e \notin DOMAIN incognito_chats

\* C28 (as claimed): once delete has succeeded on a durable session, its row
\* and every message row of it are gone, and in no state does a message row
\* name a session that has no row.
C28_Original ==
    /\ (last.op = "delete" /\ last.status = "ok" /\ last.chat_id > 0) =>
          /\ last.chat_id \notin DOMAIN chat_sessions
          /\ \A i \in 1..Len(chat_messages) : chat_messages[i].chat_id # last.chat_id
    /\ \A i \in 1..Len(chat_messages) : chat_messages[i].chat_id \in DOMAIN chat_sessions

\* C30 (as claimed): the two in-memory incognito maps always have the same
\* keys: an id has a session record exactly when it has a message list.
C30_Original == DOMAIN incognito_chats = DOMAIN incognito_messages

\* C22 (as claimed): the index is built at most once per staleness window: no
\* build runs while the index pair on disk carries a build timestamp that
\* the csv's mtime does not exceed, also not in a process that has just
\* started and finds the index only on disk.
C22_Original == ~built.fresh

\* The rows of the FAQ file as it is now.
CurrentRows == IF csv = Missing THEN {} ELSE {Get(csv)[i] : i \in 1..Len(Get(csv))}

\* C23 (as claimed): when search_faqs finds no index, or the csv newer than
\* the index, it rebuilds before it searches, so every row it returns is a row
\* of the csv as it is now.
C23_Original ==
    (found.op = "search_faqs" /\ found.stale) =>
        \A i \in 1..Len(found.results) :
            [Category |-> found.results[i].Category,
             Question |-> found.results[i].Question,
             Answer |-> found.results[i].Answer] \in CurrentRows

\* C29 (as claimed): search_faqs always returns a list, whatever fails on the
\* way (freshness check, build, load, query embedding, vector search, the
\* text search itself): it never raises to its caller.
C29_Original == found.op = "search_faqs" => ~found.raised

\* C26 (as claimed): however the requests interleave, no two incognito
\* create calls are handed the same id.
C26_Original ==
    \A i \in 1..Len(allocated) : \A j \in 1..Len(allocated) :
        allocated[i] = allocated[j] => i = j

\* C24 (as claimed): search_uploaded_file on a file whose csv is in the upload
\* directory and whose index is absent builds and persists the index during
\* that call: once the call has returned, the index pair of the uploaded
\* source is on disk (and list_indexes names it).
C24_Original ==
    (found.op = "search_uploaded_file" /\ uploads.csv # Missing) =>
        index_exists(uploads)

\* C21: a build in which the provider fails some batches still finishes: the
\* index holds one vector per document, in document order; the vectors of a
\* failed batch are zero vectors, one per text of the batch, and every other
\* vector is the provider's embedding of the document at the same position.
C21_BatchFailure ==
    batches # <<>> =>
        /\ indexes # Missing /\ documents # Missing
        /\ Len(Get(indexes)) = Len(Get(documents))
        /\ \A k \in 1..Len(Get(documents)) :
              Get(indexes)[k] =
                  IF batches[(k - 1) \div batch_size + 1]
                  THEN embed_row(Get(documents)[k]) ELSE 0

\* A finished build of three batches whose second batch failed and whose
\* first and third were answered.
C21_Witness ==
    /\ batches = <<TRUE, FALSE, TRUE>>
    /\ indexes # Missing
    /\ Len(Get(indexes)) = MaxTexts
    /\ Get(indexes)[batch_size] # 0
    /\ Get(indexes)[batch_size + 1] = 0
    /\ Get(indexes)[2 * batch_size + 1] # 0

\* C25 (as claimed): no durable-store call executes on the event loop: every
\* durable call in progress runs on a worker of the db_ pool.
C25_Original ==
    \A r \in DOMAIN requests :
        requests[r].at = "sql" => requests[r].thread = "db_"

\* C31 (as claimed): a delete that names an existing session and a user who
\* is not its owner reports failure and leaves the session and all its
\* messages as they were, whichever store holds the session.
C31_Original ==
    [][(/\ last'.op = "delete"
        /\ last'.user # 0
        /\ SessionExists(last'.chat_id)
        /\ Owner(last'.chat_id) # last'.user)
          => /\ last'.status # "ok"
             /\ UNCHANGED <<incognito_chats, incognito_messages,
                            chat_sessions, chat_messages>>]_vars

\* C32 (as claimed): creating an incognito session leaves every session that
\* existed before the call in place, with the owner, the title and the
\* message list it had.
C32_Original ==
    [][(last'.op = "create" /\ last'.mode = "incognito") =>
          /\ \A c \in DOMAIN incognito_chats :
                /\ c \in DOMAIN incognito_chats'
                /\ incognito_chats'[c].user_id = incognito_chats[c].user_id
                /\ incognito_chats'[c].title = incognito_chats[c].title
                /\ c \in DOMAIN incognito_messages =>
                      /\ c \in DOMAIN incognito_messages'
                      /\ incognito_messages'[c] = incognito_messages[c]
          /\ UNCHANGED <<chat_sessions, chat_messages>>]_vars

\* The number of rows of M that belong to session c.
RowCount(M, c) ==
    LET OfChat(r) == r.chat_id = c IN Len(SelectSeq(M, OfChat))

\* C33: for a session of the durable store, a message row and the bump of the
\* session's updated_at come together or not at all: a step that adds rows
\* to the session also moves its updated_at forward, and an add_message or a
\* turn on the session that adds no row leaves both durable tables as they
\* were.
C33_AddMessageAtomic ==
    [][\A c \in DOMAIN chat_sessions :
          /\ RowCount(chat_messages', c) > RowCount(chat_messages, c) =>
                /\ c \in DOMAIN chat_sessions'
                /\ chat_sessions'[c].updated_at > chat_sessions[c].updated_at
          /\ (/\ last'.op \in {"add_message", "turn"}
              /\ last'.chat_id = c
              /\ RowCount(chat_messages', c) = RowCount(chat_messages, c)) =>
                UNCHANGED <<chat_sessions, chat_messages, message_seq>>]_vars

\* An add_message on an existing durable session has returned: its row is in
\* chat_messages and the session's updated_at is past its created_at.
C33_Witness ==
    /\ last.op = "add_message" /\ last.status = "ok"
    /\ last.chat_id \in DOMAIN chat_sessions
    /\ \E i \in 1..Len(chat_messages) :
          chat_messages[i].id = last.value /\ chat_messages[i].chat_id = last.chat_id
    /\ chat_sessions[last.chat_id].updated_at > chat_sessions[last.chat_id].created_at

\* C34 (as claimed): add_message on a positive id that names no row of
\* chat_sessions signals failure and inserts no message row.
C34_Original ==
    [][(/\ last'.op = "add_message"
        /\ last'.chat_id > 0
        /\ last'.chat_id \notin DOMAIN chat_sessions)
          => /\ last'.status # "ok"
             /\ chat_messages' = chat_messages]_vars

\* C35 (as claimed): a delete that names a negative id without an incognito
\* session (never handed out, or already deleted or cleared) signals failure
\* and changes neither the in-memory maps nor the durable tables.
C35_Original ==
    [][(/\ last'.op = "delete"
        /\ last'.chat_id < 0
        /\ last'.chat_id \notin DOMAIN incognito_chats)
          => /\ last'.status # "ok"
             /\ UNCHANGED <<incognito_chats, incognito_messages,
                            chat_sessions, chat_messages>>]_vars

\* The keys of a stored document and of a returned row.
StoredFields == {"Category", "Question", "Answer", "_source_id", "_document_id"}
ResultFields == {"Category", "Question", "Answer", "_score"}

\* C36: a search leaves the index store's documents as they are (documents
\* it had to read from disk are the ones on disk, and the files are not
\* written); every stored document keeps its internal fields and has no
\* score; every returned row has the row's columns and a score and no
\* internal field; at most top_k rows are returned, nearest first.
C36_SearchLeavesDocuments ==
    [][found'.op = "search" =>
          /\ documents # Missing => documents' = documents
          /\ (documents = Missing /\ documents' # Missing) =>
                Get(documents') = Get(data_file).documents
          /\ UNCHANGED <<index_file, data_file>>
          /\ documents' # Missing =>
                \A k \in 1..Len(Get(documents')) :
                    DOMAIN Get(documents')[k] = StoredFields
          /\ Len(found'.results) <= found'.limit
          /\ \A i \in 1..Len(found'.results) :
                DOMAIN found'.results[i] = ResultFields
          /\ LET q == _get_embedding(found'.query, found'.embeds)
                 docs == Get(documents')
                 At(i) == CHOOSE k \in 1..Len(docs) :
                              /\ docs[k].Question = found'.results[i].Question
                              /\ docs[k].Answer = found'.results[i].Answer
                 Dist(i) == distance(Get(indexes')[At(i)], q) IN
             \A i \in 1..(Len(found'.results) - 1) : Dist(i) <= Dist(i + 1)]_vars

\* A search has returned two rows, the nearer one first with the higher
\* score, while the store holds two documents.
C36_Witness ==
    /\ found.op = "search" /\ found.limit = 2
    /\ Len(found.results) = 2
    /\ found.results[1]._score > found.results[2]._score
    /\ documents # Missing /\ Len(Get(documents)) = 2
    /\ \A k \in 1..2 : DOMAIN Get(documents)[k] = StoredFields

\* C37: whenever search_faqs answers from the text search, with rows or
\* without, every row carries the fallback score and the scarcity note
\* assembled from the answer is not empty.
C37_FallbackScarcity ==
    (found.op = "search_faqs" /\ found.fallback /\ ~found.raised) =>
        /\ \A i \in 1..Len(found.results) : found.results[i]._score = FallbackScore
        /\ found.scarcity_note # ""

\* search_faqs has answered from the text search with a row, and the note
\* is the low-relevance note.
C37_Witness ==
    /\ found.op = "search_faqs" /\ found.fallback /\ ~found.raised
    /\ found.results # <<>>
    /\ found.scarcity_note = LowRelevanceNote

\* The position of the message with the given id in an incognito thread (0:
\* no such message).
PositionOf(chat_id, id) ==
    LET msgs == incognito_messages[chat_id]
        at == {i \in 1..Len(msgs) : msgs[i].id = id} IN
    IF at = {} THEN 0 ELSE CHOOSE i \in at : TRUE

\* C38: however turns on incognito sessions interleave at their awaits, the
\* message ids of a thread are pairwise distinct; every message a turn has
\* stored is in its thread with the turn's role and the thread holds nothing
\* else; and a turn's assistant message comes after its user message.
C38_InterleavedTurns ==
    /\ \A c \in DOMAIN incognito_messages :
          /\ \A i, j \in 1..Len(incognito_messages[c]) :
                incognito_messages[c][i].id = incognito_messages[c][j].id => i = j
          /\ Len(incognito_messages[c]) =
                Cardinality({r \in DOMAIN turns :
                                turns[r].chat_id = c /\ turns[r].at \in {"llm", "done"}})
                + Cardinality({r \in DOMAIN turns :
                                  turns[r].chat_id = c /\ turns[r].at = "done"})
    /\ \A r \in DOMAIN turns :
          /\ turns[r].at \in {"llm", "done"} =>
                LET p == PositionOf(turns[r].chat_id, turns[r].user_message_id) IN
                /\ p > 0
                /\ incognito_messages[turns[r].chat_id][p].role = "user"
          /\ turns[r].at = "done" =>
                LET p == PositionOf(turns[r].chat_id, turns[r].user_message_id)
                    q == PositionOf(turns[r].chat_id, turns[r].assistant_message_id) IN
                /\ q > p
                /\ incognito_messages[turns[r].chat_id][q].role = "assistant"

\* Two turns on one incognito session have finished interleaved: both user
\* messages were stored before either assistant message.
C38_Witness ==
    /\ \A r \in DOMAIN turns : turns[r].at = "done"
    /\ turns[1].chat_id = turns[2].chat_id
    /\ Len(incognito_messages[turns[1].chat_id]) = 4
    /\ PositionOf(turns[1].chat_id, turns[2].user_message_id)
          < PositionOf(turns[1].chat_id, turns[1].assistant_message_id)
    /\ PositionOf(turns[1].chat_id, turns[1].user_message_id)
          < PositionOf(turns[1].chat_id, turns[2].assistant_message_id)

====
